---- MODULE Spec2Model ----
(***************************************************************************)
(* giant-wiki: the task ledger (core/models.py, core/views.py), the        *)
(* background orchestrations (wiki/tasks.py), the edit view                *)
(* (wiki/views.py), the content store (wiki/services/git_storage.py), the  *)
(* sidebar and its cache (wiki/services/sidebar.py) and the search index   *)
(* (wiki/services/search.py).                                              *)
(*                                                                         *)
(* Spec      the task ledger: dispatch_task, one worker running            *)
(*           rebuild_search_index, the task_cancel view, redelivery.       *)
(* SpecLive  Spec under fair scheduling of the dispatcher, the worker and  *)
(*           a cancel request under way.                                   *)
(* SpecSave  one job at a time over the content store, the search index,   *)
(*           the caches and the git working copy: save_and_sync, the edit  *)
(*           view, sync_to_remote, sync_from_remote, rebuild_search_index. *)
(* SpecCalls    validate_path, commit_and_push and pull called on their    *)
(*              own, over every input and every git exit status.           *)
(* SpecSidebar  the sidebar cache, one operation at a time: reads,         *)
(*              invalidations, expiries, warms and page saves.             *)
(* SpecSearch   the wiki_fts table: add_page, remove_page, rebuild_index   *)
(*              and search.                                                *)
(* SpecWarm     warm_sidebar_cache among index-page reads, invalidations   *)
(*              of all caches and page saves.                              *)
(* SpecStorage  the GitStorageService calls that take a page path or an    *)
(*              attachment filename, over a tree of files and directories. *)
(* SpecBuild    _build_sidebar_structure over every title map of a few     *)
(*              pages.                                                     *)
(* SpecWidgets  get_recently_updated and get_recently_stale called with     *)
(*              differing limits, among invalidations and page saves.      *)
(* SpecDelete   the delete view, one request at a time, over every outcome *)
(*              of the git commit.                                         *)
(* SpecChange   the content-changing operations, each with the cache       *)
(*              invalidation it calls, among widget reads and cache warms. *)
(* SpecRetry    save_and_sync jobs one after the other, each knowing how   *)
(*              the one before it ended.                                   *)
(* SpecWriters  two saves of a page and a rebuild of the search index,     *)
(*              interleaved step by step.                                  *)
(* SpecRace     a sidebar read, a cache warm and a content change with its  *)
(*              cache invalidation, interleaved step by step.              *)
(* SpecNotify   the edit view followed by the send_teams_notification job  *)
(*              it dispatched, over every outcome of the webhook POST.     *)
(***************************************************************************)
EXTENDS Integers, Sequences, FiniteSets, TLC

\* ---------------------------------------------------------------- bounds
MaxPages == 1        \* pages enumerated by rebuild_search_index
MaxDeliveries == 2   \* deliveries of the one job message (at-least-once queue)
MaxCancels == 1      \* POSTs to task_cancel
MaxClock == 2        \* writes of a page file (each reads a later datetime.now())
MaxPathLen == 4      \* characters of a path given to validate_path
MaxReads == 2        \* consecutive sidebar reads that are counted
MaxQueryLen == 2     \* characters of a search query

\* ------------------------------------------------------- program constants
ProgressLogEvery == 10

\* ----------------------------------------------------------------- state
VARIABLES
  task,        \* the Task row: status, logs, celery_task_id, total_items, completed_items
  visible,     \* the row (and its 'created' audit entry) is committed: other connections read it
  audit,       \* TaskAuditTrail rows of the task, in creation order
  txn,         \* the transaction.atomic() enclosing dispatch_task's caller: none, open, committed, rolled_back
  dpc,         \* dispatch_task: position
  dtask,       \* dispatch_task: its in-memory Task instance
  queue,       \* broker: undelivered messages carrying task.id
  deliveries,  \* broker: deliveries made so far
  wpc,         \* worker: position in rebuild_search_index
  wtask,       \* worker: its in-memory Task instance
  wi,          \* worker: loop index i
  cpc,         \* task_cancel: position
  ctask,       \* task_cancel: the instance loaded by get_object_or_404
  cancels,     \* task_cancel: requests handled so far
  files,       \* content store: pages/<path>.md, the raw body and the frontmatter of each page
  index,       \* search index: wiki_fts, the document stored for each path
  dirty,       \* git: the working copy holds changes that are not committed
  clock,       \* datetime.now()
  jkind,       \* the running job: which orchestration or view
  jpc,         \* the running job: position
  jargs,       \* the running job: its arguments and locals
  jtask,       \* the running job: the persisted Task row (status, logs)
  jlogs,       \* the running job: task.logs of its in-memory Task instance
  events,      \* the running job: the effects it has had, in order
  response,    \* the edit view: what the request returned
  call,        \* a service function called on its own: its name, arguments and outcome
  pages,       \* content store as the sidebar sees it: each page's title ("None": a page without one) or "absent"
  cache,       \* django cache: the sidebar's title tier and structure tier
  since,       \* sidebar: the last operation that was not a read
  reads,       \* sidebar: get_sidebar_categories calls since then
  queries,     \* sidebar: storage.get_page_titles() calls made by those reads
  fts,         \* the rows of the wiki_fts table, in rowid order
  repo         \* the files and directories under pages/ and attachments/ of the repository

ledgerVars == <<task, visible, audit, txn, dpc, dtask, queue, deliveries,
                wpc, wtask, wi, cpc, ctask, cancels>>

storeVars == <<files, index, dirty, clock, jkind, jpc, jargs, jtask, jlogs, events, response>>

sidebarVars == <<pages, cache, since, reads, queries>>
searchVars == <<fts>>
auxVars == <<call, sidebarVars, searchVars, repo>>

vars == <<ledgerVars, storeVars, auxVars>>

\* no service function called yet
NoCall == [fn |-> "none"]

\* ------------------------------------------------------------- the ledger
Terminal == {"success", "completed_with_errors", "failed", "cancelled"}

InitialLogs == {<< >>, <<"initial">>}

NoTask == [status |-> "none", logs |-> << >>, celery_task_id |-> FALSE,
           total_items |-> -1, completed_items |-> 0]

\* Task.objects.create(task_type=..., task_args=..., logs=initial_logs)
NewTask(initial_logs) ==
  [status |-> "queued", logs |-> initial_logs, celery_task_id |-> FALSE,
   total_items |-> -1, completed_items |-> 0]

\* Task.can_cancel
can_cancel(t) == t.status \in {"queued", "in_progress"}

\* Task.started_at, completed_at, cancelled_at are not None: the audit trail
\* has an entry of the event
started_at(a) == \E k \in 1..Len(a) : a[k] = "started"

completed_at(a) ==
  \E k \in 1..Len(a) : a[k] \in {"completed", "completed_with_errors", "failed"}

cancelled_at(a) == \E k \in 1..Len(a) : a[k] = "cancelled"

\* the status and the audit event Task.complete chooses
CompleteStatusErrorsFail(success, has_errors) ==
  IF ~success \/ has_errors THEN "failed" ELSE "success"

CompleteStatus(success, has_errors) ==
  IF ~success THEN "failed"
  ELSE IF has_errors THEN "completed_with_errors" ELSE "success"

CompleteEventAlwaysCompleted(success, has_errors) == "completed"

CompleteEvent(success, has_errors) ==
  IF ~success THEN "failed"
  ELSE IF has_errors THEN "completed_with_errors" ELSE "completed"

\* transaction.on_commit(_dispatch): with no transaction open the callback runs
\* at once; inside one it is kept until the outermost commit
OnCommitImmediate(inTxn) == "dispatching"

on_commit(inTxn) == IF inTxn THEN "deferred" ELSE "dispatching"

\* the except branch of _dispatch: what it stores in the row
DispatchFailedKeepsQueued(t) ==
  [status |-> "queued", logs |-> t.logs \o <<"Failed to dispatch task">>]

DispatchFailed(t) ==
  [status |-> "failed", logs |-> t.logs \o <<"Failed to dispatch task">>]

\* --- dispatch_task
DispatchCreate ==
  /\ dpc = "idle"
  /\ \E enclosing \in BOOLEAN, initial_logs \in InitialLogs :
       /\ task' = NewTask(initial_logs)
       /\ dtask' = NewTask(initial_logs)
       /\ audit' = <<"created">>
       /\ txn' = IF enclosing THEN "open" ELSE "none"
       /\ visible' = ~enclosing
       /\ dpc' = on_commit(enclosing)
  /\ UNCHANGED <<queue, deliveries, wpc, wtask, wi, cpc, ctask, cancels>>
  /\ UNCHANGED <<storeVars, auxVars>>

\* the caller's outermost atomic block commits: the row becomes readable and
\* the deferred callback runs
OuterCommit ==
  /\ txn = "open"
  /\ txn' = "committed"
  /\ visible' = TRUE
  /\ dpc' = IF dpc = "deferred" THEN "dispatching" ELSE dpc
  /\ UNCHANGED <<task, audit, dtask, queue, deliveries, wpc, wtask, wi, cpc, ctask, cancels>>
  /\ UNCHANGED <<storeVars, auxVars>>

\* the caller's outermost atomic block rolls back: the row, its audit entry and
\* the callback are discarded
OuterRollback ==
  /\ txn = "open"
  /\ dpc = "deferred"
  /\ txn' = "rolled_back"
  /\ task' = NoTask
  /\ audit' = << >>
  /\ dpc' = "rolled_back"
  /\ UNCHANGED <<visible, dtask, queue, deliveries, wpc, wtask, wi, cpc, ctask, cancels>>
  /\ UNCHANGED <<storeVars, auxVars>>

\* _dispatch: celery_task.delay(task.id, ...) returns
DispatchEnqueue ==
  /\ dpc = "dispatching"
  /\ queue' = queue + 1
  /\ dpc' = "enqueued"
  /\ UNCHANGED <<task, visible, audit, txn, dtask, deliveries, wpc, wtask, wi, cpc, ctask, cancels>>
  /\ UNCHANGED <<storeVars, auxVars>>

\* _dispatch: task.celery_task_id = result.id; save(update_fields=["celery_task_id"])
DispatchSaveId ==
  /\ dpc = "enqueued"
  /\ task' = [task EXCEPT !.celery_task_id = TRUE]
  /\ dtask' = [dtask EXCEPT !.celery_task_id = TRUE]
  /\ dpc' = "dispatched"
  /\ UNCHANGED <<visible, audit, txn, queue, deliveries, wpc, wtask, wi, cpc, ctask, cancels>>
  /\ UNCHANGED <<storeVars, auxVars>>

\* _dispatch: the lookup or delay() raises; the except branch marks the task
DispatchFail ==
  /\ dpc = "dispatching"
  /\ task' = [task EXCEPT !.status = DispatchFailed(dtask).status,
                          !.logs = DispatchFailed(dtask).logs]
  /\ dtask' = [dtask EXCEPT !.status = DispatchFailed(dtask).status,
                            !.logs = DispatchFailed(dtask).logs]
  /\ audit' = Append(audit, "failed")
  /\ dpc' = "dispatch_failed"
  /\ UNCHANGED <<visible, txn, queue, deliveries, wpc, wtask, wi, cpc, ctask, cancels>>
  /\ UNCHANGED <<storeVars, auxVars>>

\* --- the broker: at-least-once delivery
Redeliver ==
  /\ deliveries >= 1
  /\ deliveries + queue < MaxDeliveries
  /\ queue' = queue + 1
  /\ UNCHANGED <<task, visible, audit, txn, dpc, dtask, deliveries, wpc, wtask, wi, cpc, ctask, cancels>>
  /\ UNCHANGED <<storeVars, auxVars>>

\* --- the worker: rebuild_search_index(task_id)
\* task = Task.objects.get(id=task_id)
WorkerReceive ==
  /\ wpc = "idle"
  /\ queue > 0
  /\ queue' = queue - 1
  /\ deliveries' = deliveries + 1
  /\ IF visible /\ task.status # "none"
       THEN wtask' = task /\ wpc' = "start"
       ELSE wtask' = NoTask /\ wpc' = "not_found"
  /\ wi' = 0
  /\ UNCHANGED <<task, visible, audit, txn, dpc, dtask, cpc, ctask, cancels>>
  /\ UNCHANGED <<storeVars, auxVars>>

\* Task.start: status = "in_progress"; save(update_fields=["status"])
StartSave ==
  /\ wpc = "start"
  /\ wtask' = [wtask EXCEPT !.status = "in_progress"]
  /\ task' = [task EXCEPT !.status = "in_progress"]
  /\ wpc' = "start_audit"
  /\ UNCHANGED <<visible, audit, txn, dpc, dtask, queue, deliveries, wi, cpc, ctask, cancels>>
  /\ UNCHANGED <<storeVars, auxVars>>

\* Task.start: TaskAuditTrail.objects.create(task=self, event="started")
StartAudit ==
  /\ wpc = "start_audit"
  /\ audit' = Append(audit, "started")
  /\ wpc' = "list"
  /\ UNCHANGED <<task, visible, txn, dpc, dtask, queue, deliveries, wtask, wi, cpc, ctask, cancels>>
  /\ UNCHANGED <<storeVars, auxVars>>

\* page_paths = list(storage.list_pages()); total_items = len(page_paths); save
ListPages ==
  /\ wpc = "list"
  /\ \E n \in 0..MaxPages :
       /\ wtask' = [wtask EXCEPT !.total_items = n]
       /\ task' = [task EXCEPT !.total_items = n]
  /\ wi' = 0
  /\ wpc' = "loop"
  /\ UNCHANGED <<visible, audit, txn, dpc, dtask, queue, deliveries, cpc, ctask, cancels>>
  /\ UNCHANGED <<storeVars, auxVars>>

\* one pass of the loop: completed_items = i; every 10th page a log line;
\* save(update_fields=["completed_items", "logs"])
ProgressLogs(logs, i) ==
  IF i % ProgressLogEvery = 0 THEN logs \o <<"Processed">> ELSE logs

ProcessPage ==
  /\ wpc = "loop"
  /\ wi < wtask.total_items
  /\ wi' = wi + 1
  /\ wtask' = [wtask EXCEPT !.completed_items = wi + 1,
                            !.logs = ProgressLogs(wtask.logs, wi + 1)]
  /\ task' = [task EXCEPT !.completed_items = wi + 1,
                          !.logs = ProgressLogs(wtask.logs, wi + 1)]
  /\ UNCHANGED <<visible, audit, txn, dpc, dtask, queue, deliveries, wpc, cpc, ctask, cancels>>
  /\ UNCHANGED <<storeVars, auxVars>>

\* Task.complete(success, logs): status, logs += logs;
\* save(update_fields=["status", "logs"])
Complete(success, logs) ==
  /\ wtask' = [wtask EXCEPT !.status = CompleteStatus(success, FALSE),
                            !.logs = wtask.logs \o logs]
  /\ task' = [task EXCEPT !.status = CompleteStatus(success, FALSE),
                          !.logs = wtask.logs \o logs]
  /\ wpc' = "complete_audit"
  /\ UNCHANGED <<visible, audit, txn, dpc, dtask, queue, deliveries, wi, cpc, ctask, cancels>>
  /\ UNCHANGED <<storeVars, auxVars>>

\* search_service.rebuild_index(pages) returns; task.complete(success=True, ...)
CompleteOk ==
  /\ wpc = "loop"
  /\ wi = wtask.total_items
  /\ Complete(TRUE, <<"Indexed">>)

\* list_pages, get_page or rebuild_index raises: the except branch calls
\* task.complete(success=False, ...)
CompleteFail ==
  /\ wpc \in {"list", "loop"}
  /\ Complete(FALSE, <<"Failed to rebuild index">>)

\* Task.complete: TaskAuditTrail.objects.create(task=self, event=event)
CompleteAudit ==
  /\ wpc = "complete_audit"
  /\ audit' = Append(audit, CompleteEvent(wtask.status # "failed", FALSE))
  /\ wpc' = "idle"
  /\ wtask' = NoTask
  /\ wi' = 0
  /\ UNCHANGED <<task, visible, txn, dpc, dtask, queue, deliveries, cpc, ctask, cancels>>
  /\ UNCHANGED <<storeVars, auxVars>>

\* --- the task_cancel view
\* task = get_object_or_404(Task, id=task_id); if not task.can_cancel: 400
CancelReject ==
  /\ cpc = "idle"
  /\ cancels < MaxCancels
  /\ visible /\ task.status # "none"
  /\ ~can_cancel(task)
  /\ cancels' = cancels + 1
  /\ UNCHANGED <<task, visible, audit, txn, dpc, dtask, queue, deliveries, wpc, wtask, wi, cpc, ctask>>
  /\ UNCHANGED <<storeVars, auxVars>>

\* task = get_object_or_404(Task, id=task_id); task.can_cancel holds
CancelLoad ==
  /\ cpc = "idle"
  /\ cancels < MaxCancels
  /\ visible /\ task.status # "none"
  /\ can_cancel(task)
  /\ ctask' = task
  /\ cpc' = "cancel"
  /\ UNCHANGED <<task, visible, audit, txn, dpc, dtask, queue, deliveries, wpc, wtask, wi, cancels>>
  /\ UNCHANGED <<storeVars, auxVars>>

\* Task.cancel: status, logs += marker; save(update_fields=["status", "logs"])
CancelSave ==
  /\ cpc = "cancel"
  /\ ctask' = [ctask EXCEPT !.status = "cancelled", !.logs = ctask.logs \o <<"Task cancelled">>]
  /\ task' = [task EXCEPT !.status = "cancelled", !.logs = ctask.logs \o <<"Task cancelled">>]
  /\ cpc' = "revoke"
  /\ UNCHANGED <<visible, audit, txn, dpc, dtask, queue, deliveries, wpc, wtask, wi, cancels>>
  /\ UNCHANGED <<storeVars, auxVars>>

\* Task.cancel: control.revoke(celery_task_id, terminate=True) when an id is
\* recorded, then TaskAuditTrail.objects.create(task=self, event="cancelled").
\* The revoke is best effort: the job is dropped and a running worker
\* terminated, or the signal comes too late and nothing happens.
CancelRevokeAudit ==
  /\ cpc = "revoke"
  /\ \E applied \in BOOLEAN :
       IF applied /\ ctask.celery_task_id
         THEN queue' = 0 /\ wpc' = "idle" /\ wtask' = NoTask /\ wi' = 0
         ELSE UNCHANGED <<queue, wpc, wtask, wi>>
  /\ audit' = Append(audit, "cancelled")
  /\ cpc' = "idle"
  /\ ctask' = NoTask
  /\ cancels' = cancels + 1
  /\ UNCHANGED <<task, visible, txn, dpc, dtask, deliveries>>
  /\ UNCHANGED <<storeVars, auxVars>>

\* ------------------------------------------------------ the content store
Paths == {"docs/a"}

\* a body is a sequence of characters; " " stands for any whitespace character
Contents == {<<"a">>, <<"b">>, <<" ", "a">>, <<"a", " ">>}

Titles == {"T1", "T2"}

\* a last_updated value a caller supplies (no clock reading equals it)
UserStamp == 0

\* SYSTEM_MANAGED_FIELDS = {"last_updated"}
SYSTEM_MANAGED_FIELDS == {"last_updated"}

\* A metadata dict over the keys title and last_updated; "None" and -1 stand
\* for a key the dict does not have.
NoMetadata == [title |-> "None", last_updated |-> -1]

MetadataInputs == [title : Titles \cup {"None"}, last_updated : {-1, UserStamp}]

NoFile == [exists |-> FALSE, content |-> << >>, metadata |-> NoMetadata]

\* the page file before the first request: absent, or a page that came with
\* the repository (written outside the wiki, so without a last_updated)
InitialFiles ==
  {NoFile, [exists |-> TRUE, content |-> <<"a">>,
            metadata |-> [title |-> "T1", last_updated |-> -1]]}

NoPage == [content |-> << >>, metadata |-> NoMetadata]

NoArgs == [content |-> << >>, metadata |-> NoMetadata, original_metadata |-> NoMetadata,
           is_new_page |-> FALSE, wiki_page |-> NoPage, content_changed |-> FALSE,
           should_invalidate_cache |-> FALSE, raised |-> "none", result |-> "none",
           existing |-> NoFile]

NoJobTask == [status |-> "none", logs |-> << >>]

\* str.lstrip(), str.rstrip(), str.strip()
RECURSIVE LStrip(_)
LStrip(s) == IF s = << >> THEN s ELSE IF Head(s) = " " THEN LStrip(Tail(s)) ELSE s

RECURSIVE RStrip(_)
RStrip(s) ==
  IF s = << >> THEN s
  ELSE IF s[Len(s)] = " " THEN RStrip(SubSeq(s, 1, Len(s) - 1)) ELSE s

Strip(s) == RStrip(LStrip(s))

\* frontmatter.dumps(post): the body follows the metadata block and the whole
\* text is stripped, so the body loses its trailing whitespace
dumps(content) == RStrip(content)

\* frontmatter.loads(raw_content).content: the body, stripped at both ends
loads(body) == Strip(body)

\* GitStorageService.get_page for a file that exists
get_page(f) == [exists |-> f.exists, content |-> loads(f.content), metadata |-> f.metadata]

\* {k: v for k, v in existing.metadata.items() if k not in SYSTEM_MANAGED_FIELDS}
existing_user_metadata(m) ==
  [title |-> IF "title" \in SYSTEM_MANAGED_FIELDS THEN "None" ELSE m.title,
   last_updated |-> IF "last_updated" \in SYSTEM_MANAGED_FIELDS THEN -1 ELSE m.last_updated]

\* save_page: content_changed, decided before the system fields are added
content_changed(f, content, metadata) ==
  IF f.exists
    THEN get_page(f).content # content
           \/ existing_user_metadata(get_page(f).metadata) # metadata
    ELSE TRUE

\* save_page: the file it leaves. Unchanged when nothing changed; else
\* frontmatter.dumps of the body under the metadata with
\* last_updated = str(datetime.now())
SavePageKeepsUserStamp(f, content, metadata, now) ==
  IF content_changed(f, content, metadata)
    THEN [exists |-> TRUE, content |-> dumps(content),
          metadata |-> IF metadata.last_updated = -1
                         THEN [metadata EXCEPT !.last_updated = now] ELSE metadata]
    ELSE f

save_page(f, content, metadata, now) ==
  IF content_changed(f, content, metadata)
    THEN [exists |-> TRUE, content |-> dumps(content),
          metadata |-> [metadata EXCEPT !.last_updated = now]]
    ELSE f

\* save_page: the WikiPage it returns: the existing page read again when
\* nothing changed, else the content and the stamped metadata as given
SavedPage(f, content, metadata, now) ==
  IF content_changed(f, content, metadata)
    THEN [content |-> content, metadata |-> [metadata EXCEPT !.last_updated = now]]
    ELSE [content |-> get_page(f).content, metadata |-> get_page(f).metadata]

\* SearchService.add_page: delete the entry for the path, insert the new one
add_page(idx, path, content) == [idx EXCEPT ![path] = <<content>>]

\* ---- git commands. An exit status is TRUE for exit code 0. A command that
\* fails writes to stderr and leaves stdout empty.
CommitExits == [add : BOOLEAN, status : BOOLEAN, commit : BOOLEAN, remote : BOOLEAN, push : BOOLEAN]

PullExits == [remote : BOOLEAN, pull : BOOLEAN]

\* commit_and_push(message) with a valid message, on a working copy that is
\* changed or not (changed) and has a remote or not (has_remote), when the
\* commands it runs exit as x says. failed names the command that exited
\* non-zero, pushed tells whether git push ran and succeeded.
GitCommitAndPush(changed, has_remote, x) ==
  IF ~x.add
    THEN [result |-> "raise", dirty |-> changed, pushed |-> FALSE, failed |-> "add"]
  ELSE IF ~x.status
    THEN [result |-> "False", dirty |-> changed, pushed |-> FALSE, failed |-> "status"]
  ELSE IF ~changed
    THEN [result |-> "False", dirty |-> FALSE, pushed |-> FALSE, failed |-> "none"]
  ELSE IF ~x.commit
    THEN [result |-> "raise", dirty |-> TRUE, pushed |-> FALSE, failed |-> "commit"]
  ELSE IF ~x.remote
    THEN [result |-> "True", dirty |-> FALSE, pushed |-> FALSE, failed |-> "remote"]
  ELSE IF ~has_remote
    THEN [result |-> "True", dirty |-> FALSE, pushed |-> FALSE, failed |-> "none"]
  ELSE IF ~x.push
    THEN [result |-> "raise", dirty |-> FALSE, pushed |-> FALSE, failed |-> "push"]
  ELSE [result |-> "True", dirty |-> FALSE, pushed |-> TRUE, failed |-> "none"]

\* pull()
GitPull(has_remote, x) ==
  IF ~x.remote
    THEN [result |-> "False", pulled |-> FALSE, failed |-> "remote"]
  ELSE IF ~has_remote
    THEN [result |-> "False", pulled |-> FALSE, failed |-> "none"]
  ELSE IF ~x.pull
    THEN [result |-> "raise", pulled |-> FALSE, failed |-> "pull"]
  ELSE [result |-> "True", pulled |-> TRUE, failed |-> "none"]

\* commit_and_push: what it returns and whether the working copy still holds
\* uncommitted changes afterwards, over every way its commands can exit
commit_and_push(d) ==
  {[result |-> o.result, dirty |-> o.dirty] :
     o \in {GitCommitAndPush(d, has_remote, x) : has_remote \in BOOLEAN, x \in CommitExits}}

\* pull: what it returns, over every way its commands can exit
pull == {GitPull(has_remote, x).result : has_remote \in BOOLEAN, x \in PullExits}

\* deserialize_metadata: an empty dict gives None, which save_page takes as an
\* empty dict; a string value that parses as an ISO date becomes a datetime
\* (no title or stamp of this model does)
deserialize_metadata(m) == m

\* bool(metadata): a dict is true when it has a key
Truthy(m) == m # NoMetadata

\* save_and_sync: should_invalidate_cache
SaveShouldInvalidate(a) ==
  a.is_new_page
    \/ (Truthy(a.metadata) /\ Truthy(a.original_metadata)
          /\ a.metadata.title # a.original_metadata.title)

\* edit: should_invalidate_cache
EditShouldInvalidate(a) ==
  a.is_new_page
    \/ (Truthy(a.metadata) /\ a.metadata.title # "None"
          /\ a.metadata.title # a.original_metadata.title)

\* edit: the metadata rebuilt from the form, key by key of original_metadata:
\* the posted meta_<key> when the form has it, else the original value
FormValues == {"absent"} \cup Titles

EditMetadata(original, meta_title, meta_last_updated) ==
  [title |-> IF original.title = "None" THEN "None"
             ELSE IF meta_title # "absent" THEN meta_title ELSE original.title,
   last_updated |-> IF original.last_updated = -1 THEN -1
                    ELSE IF meta_last_updated THEN UserStamp ELSE original.last_updated]

JobFree == jpc = "idle"

\* a job begins: task = Task.objects.get(id=task_id); task.start()
Begin(kind, args) ==
  /\ JobFree
  /\ jkind' = kind
  /\ jargs' = args
  /\ jtask' = [status |-> "in_progress", logs |-> <<"initial">>]
  /\ jlogs' = <<"initial">>
  /\ events' = <<"start">>
  /\ response' = "none"

\* Task.complete(success, logs=...) at the end of a job: self.logs += logs,
\* then status and logs are saved
FinishReplacesLogs(success, logs) ==
  /\ jtask' = [status |-> CompleteStatus(success, FALSE), logs |-> logs]
  /\ jlogs' = logs
  /\ events' = Append(events, "complete")
  /\ jpc' = "done"

Finish(success, logs) ==
  /\ jtask' = [status |-> CompleteStatus(success, FALSE), logs |-> jlogs \o logs]
  /\ jlogs' = jlogs \o logs
  /\ events' = Append(events, "complete")
  /\ jpc' = "done"

\* where a raising step of a job's try block leaves control: except Exception
NoExceptHandler == "done"

ExceptHandler == "except"

Path == CHOOSE p \in Paths : TRUE

\* --- save_and_sync(task_id, page_path, content, metadata, original_metadata, is_new_page)
SaveStart ==
  /\ clock < MaxClock
  /\ \E content \in Contents, metadata \in MetadataInputs,
        original_metadata \in MetadataInputs, is_new_page \in BOOLEAN :
       Begin("save_and_sync",
             [NoArgs EXCEPT !.content = content,
                            !.metadata = deserialize_metadata(metadata),
                            !.original_metadata = deserialize_metadata(original_metadata),
                            !.is_new_page = is_new_page])
  /\ jpc' = "save_page"
  /\ UNCHANGED <<files, index, dirty, clock>>
  /\ UNCHANGED <<ledgerVars, auxVars>>

\* the order of the steps of save_and_sync: the step after pc
SaveStepsCommitFirst(pc) ==
  IF pc = "save_page" THEN "add_page"
  ELSE IF pc = "add_page" THEN "commit"
  ELSE IF pc = "commit" THEN "invalidate"
  ELSE "complete"

SaveSteps(pc) ==
  IF pc = "save_page" THEN "add_page"
  ELSE IF pc = "add_page" THEN "invalidate"
  ELSE IF pc = "invalidate" THEN "commit"
  ELSE "complete"

\* storage.save_page(page_path, content, metadata) returns; a metadata dict
\* that was passed (not None) now carries the new last_updated as well
StoreSavePage(next) ==
  /\ jpc = "save_page"
  /\ LET f == files[Path]
         changed == content_changed(f, jargs.content, jargs.metadata)
     IN /\ files' = [files EXCEPT ![Path] = save_page(f, jargs.content, jargs.metadata, clock + 1)]
        /\ clock' = IF changed THEN clock + 1 ELSE clock
        /\ dirty' = (dirty \/ changed)
        /\ jargs' = [jargs EXCEPT
                       !.existing = get_page(f),
                       !.content_changed = changed,
                       !.wiki_page = SavedPage(f, jargs.content, jargs.metadata, clock + 1),
                       !.metadata = IF changed /\ Truthy(jargs.metadata)
                                      THEN [jargs.metadata EXCEPT !.last_updated = clock + 1]
                                      ELSE jargs.metadata]
        /\ events' = IF changed THEN Append(events, "write") ELSE events
  /\ jpc' = next
  /\ UNCHANGED <<index, jkind, jtask, response>>
  /\ UNCHANGED <<ledgerVars, auxVars>>

SaveSavePage ==
  /\ jkind = "save_and_sync"
  /\ StoreSavePage(SaveSteps("save_page"))
  /\ jlogs' = Append(jlogs, "Saved page")

\* search_service.add_page(page_path, content) returns
StoreAddPage(next) ==
  /\ jpc = "add_page"
  /\ index' = add_page(index, Path, jargs.content)
  /\ events' = Append(events, "index")
  /\ jpc' = next
  /\ UNCHANGED <<files, dirty, clock, jkind, jargs, jtask, response>>
  /\ UNCHANGED <<ledgerVars, auxVars>>

SaveAddPage ==
  /\ jkind = "save_and_sync"
  /\ StoreAddPage(SaveSteps("add_page"))
  /\ jlogs' = Append(jlogs, "Updated search index")

\* if should_invalidate_cache: invalidate_sidebar_cache()
SaveInvalidate ==
  /\ jkind = "save_and_sync"
  /\ jpc = "invalidate"
  /\ events' = IF SaveShouldInvalidate(jargs) THEN Append(events, "invalidate") ELSE events
  /\ jlogs' = IF SaveShouldInvalidate(jargs) THEN Append(jlogs, "Invalidated sidebar cache") ELSE jlogs
  /\ jargs' = [jargs EXCEPT !.should_invalidate_cache = SaveShouldInvalidate(jargs)]
  /\ jpc' = SaveSteps("invalidate")
  /\ UNCHANGED <<files, index, dirty, clock, jkind, jtask, response>>
  /\ UNCHANGED <<ledgerVars, auxVars>>

\* if content_changed: storage.commit_and_push(...); else the commit is skipped
SaveCommitAlways(a) == TRUE

SaveCommitCalled(a) == a.content_changed

SaveCommit ==
  /\ jkind = "save_and_sync"
  /\ jpc = "commit"
  /\ IF SaveCommitCalled(jargs)
       THEN \E o \in commit_and_push(dirty) :
              /\ dirty' = o.dirty
              /\ events' = Append(events, "commit")
              /\ jargs' = [jargs EXCEPT !.result = o.result,
                                        !.raised = IF o.result = "raise" THEN "commit" ELSE "none"]
              /\ jlogs' = IF o.result = "True" THEN Append(jlogs, "Committed and pushed")
                          ELSE IF o.result = "False" THEN Append(jlogs, "No changes to commit")
                          ELSE jlogs
              /\ jpc' = IF o.result = "raise" THEN ExceptHandler ELSE SaveSteps("commit")
       ELSE /\ jlogs' = Append(jlogs, "Skipped commit")
            /\ jpc' = SaveSteps("commit")
            /\ UNCHANGED <<dirty, events, jargs>>
  /\ UNCHANGED <<files, index, clock, jkind, jtask, response>>
  /\ UNCHANGED <<ledgerVars, auxVars>>

\* save_page, add_page or invalidate_sidebar_cache raises
SaveRaise ==
  /\ jkind = "save_and_sync"
  /\ jpc \in {"save_page", "add_page"} \cup
             (IF SaveShouldInvalidate(jargs) THEN {"invalidate"} ELSE {})
  /\ jargs' = [jargs EXCEPT !.raised = jpc]
  /\ jpc' = ExceptHandler
  /\ UNCHANGED <<files, index, dirty, clock, jkind, jtask, jlogs, events, response>>
  /\ UNCHANGED <<ledgerVars, auxVars>>

\* task.complete(success=True, logs="Successfully saved ..."); return result
SaveComplete ==
  /\ jkind = "save_and_sync"
  /\ jpc = "complete"
  /\ Finish(TRUE, <<"Successfully saved">>)
  /\ UNCHANGED <<files, index, dirty, clock, jkind, jargs, response>>
  /\ UNCHANGED <<ledgerVars, auxVars>>

\* except Exception: task.complete(success=False, logs="Failed to save page: ..."); raise
SaveExcept ==
  /\ jkind = "save_and_sync"
  /\ jpc = "except"
  /\ Finish(FALSE, <<"Failed to save page">>)
  /\ UNCHANGED <<files, index, dirty, clock, jkind, jargs, response>>
  /\ UNCHANGED <<ledgerVars, auxVars>>

\* --- the edit view, POST
\* wiki_page = storage.get_page(page_path); original_metadata; is_new_page; the
\* metadata rebuilt from the form (the wiki_author_name cookie is not set)
EditStart ==
  /\ JobFree
  /\ clock < MaxClock
  /\ \E content \in Contents, meta_title \in FormValues, meta_last_updated \in BOOLEAN :
       LET wiki_page == get_page(files[Path])
           original_metadata == IF wiki_page.exists THEN wiki_page.metadata ELSE NoMetadata
       IN jargs' = [NoArgs EXCEPT
                      !.content = content,
                      !.metadata = EditMetadata(original_metadata, meta_title, meta_last_updated),
                      !.original_metadata = original_metadata,
                      !.is_new_page = ~wiki_page.exists]
  /\ jkind' = "edit"
  /\ jpc' = "save_page"
  /\ jtask' = NoJobTask
  /\ jlogs' = << >>
  /\ events' = << >>
  /\ response' = "none"
  /\ UNCHANGED <<files, index, dirty, clock>>
  /\ UNCHANGED <<ledgerVars, auxVars>>

\* the order of the steps of the edit view: the step after pc
EditSteps(pc) ==
  IF pc = "save_page" THEN "add_page"
  ELSE IF pc = "add_page" THEN "invalidate"
  ELSE IF pc = "invalidate" THEN "commit"
  ELSE "notify"

\* storage.save_page(page_path, content, metadata if metadata else None)
EditSavePage ==
  /\ jkind = "edit"
  /\ StoreSavePage(EditSteps("save_page"))
  /\ UNCHANGED jlogs

\* save_page raises OSError: the form is shown again with an error message
EditSaveRaise ==
  /\ jkind = "edit"
  /\ jpc = "save_page"
  /\ jargs' = [jargs EXCEPT !.raised = "save_page"]
  /\ response' = "edit_form_error"
  /\ jpc' = "done"
  /\ UNCHANGED <<files, index, dirty, clock, jkind, jtask, jlogs, events>>
  /\ UNCHANGED <<ledgerVars, auxVars>>

\* search_service.add_page(page_path, content)
EditAddPage ==
  /\ jkind = "edit"
  /\ StoreAddPage(EditSteps("add_page"))
  /\ UNCHANGED jlogs

\* if should_invalidate_cache: invalidate_wiki_caches()
EditInvalidate ==
  /\ jkind = "edit"
  /\ jpc = "invalidate"
  /\ events' = IF EditShouldInvalidate(jargs) THEN Append(events, "invalidate") ELSE events
  /\ jargs' = [jargs EXCEPT !.should_invalidate_cache = EditShouldInvalidate(jargs)]
  /\ jpc' = EditSteps("invalidate")
  /\ UNCHANGED <<files, index, dirty, clock, jkind, jtask, jlogs, response>>
  /\ UNCHANGED <<ledgerVars, auxVars>>

\* add_page or invalidate_wiki_caches raises something that is not an OSError
\* (sqlite3.Error, a cache backend error): except OSError does not catch it and
\* the exception leaves the view
EditRaise ==
  /\ jkind = "edit"
  /\ jpc \in {"add_page"} \cup (IF EditShouldInvalidate(jargs) THEN {"invalidate"} ELSE {})
  /\ jargs' = [jargs EXCEPT !.raised = jpc]
  /\ response' = "server_error"
  /\ jpc' = "done"
  /\ UNCHANGED <<files, index, dirty, clock, jkind, jtask, jlogs, events>>
  /\ UNCHANGED <<ledgerVars, auxVars>>

\* try: storage.commit_and_push(...) except Exception: logged
EditCommit ==
  /\ jkind = "edit"
  /\ jpc = "commit"
  /\ \E o \in commit_and_push(dirty) :
       /\ dirty' = o.dirty
       /\ jargs' = [jargs EXCEPT !.result = o.result]
  /\ events' = Append(events, "commit")
  /\ jpc' = EditSteps("commit")
  /\ UNCHANGED <<files, index, clock, jkind, jtask, jlogs, response>>
  /\ UNCHANGED <<ledgerVars, auxVars>>

\* try: dispatch_task("wiki.send_teams_notification", ...) except Exception:
\* logged; return redirect(reverse("page", ...))
EditNotify ==
  /\ jkind = "edit"
  /\ jpc = "notify"
  /\ \E raised \in BOOLEAN :
       events' = Append(events, IF raised THEN "notify_raised" ELSE "notify")
  /\ response' = "redirect"
  /\ jpc' = "done"
  /\ UNCHANGED <<files, index, dirty, clock, jkind, jargs, jtask, jlogs>>
  /\ UNCHANGED <<ledgerVars, auxVars>>

\* the job or the view has returned (or raised): its locals are gone and the
\* worker or the server takes the next call
JobReturn ==
  /\ jpc = "done"
  /\ jpc' = "idle"
  /\ jkind' = "none"
  /\ jargs' = NoArgs
  /\ jtask' = NoJobTask
  /\ jlogs' = << >>
  /\ events' = << >>
  /\ response' = "none"
  /\ UNCHANGED <<files, index, dirty, clock>>
  /\ UNCHANGED <<ledgerVars, auxVars>>

\* the same return, seen by whoever dispatches the next job: of a
\* save_and_sync that wrote the page file and then failed at commit_and_push,
\* the arguments stay known (the Task row, the caller's own request)
WroteThenFailedAtCommit ==
  /\ jkind = "save_and_sync"
  /\ jtask.status = "failed"
  /\ jargs.raised = "commit"
  /\ \E k \in 1..Len(events) : events[k] = "write"

RetryReturn ==
  /\ jpc = "done"
  /\ jpc' = "idle"
  /\ jkind' = "none"
  /\ jargs' = NoArgs
  /\ jtask' = NoJobTask
  /\ jlogs' = << >>
  /\ events' = << >>
  /\ response' = "none"
  /\ call' = IF WroteThenFailedAtCommit
               THEN [fn |-> "failed_at_commit", content |-> jargs.content,
                     metadata |-> jargs.metadata]
               ELSE NoCall
  /\ UNCHANGED <<files, index, dirty, clock>>
  /\ UNCHANGED <<ledgerVars, sidebarVars, searchVars, repo>>

\* --- sync_to_remote(task_id, message)
SyncToStart ==
  /\ Begin("sync_to_remote", NoArgs)
  /\ jpc' = "commit"
  /\ UNCHANGED <<files, index, dirty, clock>>
  /\ UNCHANGED <<ledgerVars, auxVars>>

\* result = service.commit_and_push(message)
SyncToCommit ==
  /\ jkind = "sync_to_remote"
  /\ jpc = "commit"
  /\ \E o \in commit_and_push(dirty) :
       /\ dirty' = o.dirty
       /\ jargs' = [jargs EXCEPT !.result = o.result,
                                 !.raised = IF o.result = "raise" THEN "commit" ELSE "none"]
       /\ jpc' = IF o.result = "raise" THEN ExceptHandler ELSE "complete"
  /\ events' = Append(events, "commit")
  /\ UNCHANGED <<files, index, clock, jkind, jtask, jlogs, response>>
  /\ UNCHANGED <<ledgerVars, auxVars>>

\* task.complete(success=True, logs=...) for either result
SyncToComplete ==
  /\ jkind = "sync_to_remote"
  /\ jpc = "complete"
  /\ Finish(TRUE, <<IF jargs.result = "True" THEN "Successfully pushed changes"
                                             ELSE "No changes to commit">>)
  /\ UNCHANGED <<files, index, dirty, clock, jkind, jargs, response>>
  /\ UNCHANGED <<ledgerVars, auxVars>>

\* except Exception: task.complete(success=False, logs="Failed to sync: ..."); raise
SyncToExcept ==
  /\ jkind = "sync_to_remote"
  /\ jpc = "except"
  /\ Finish(FALSE, <<"Failed to sync">>)
  /\ UNCHANGED <<files, index, dirty, clock, jkind, jargs, response>>
  /\ UNCHANGED <<ledgerVars, auxVars>>

\* --- sync_from_remote(task_id)
SyncFromStart ==
  /\ Begin("sync_from_remote", NoArgs)
  /\ jpc' = "pull"
  /\ UNCHANGED <<files, index, dirty, clock>>
  /\ UNCHANGED <<ledgerVars, auxVars>>

\* what git pull --rebase can leave in pages/: the files as they were (nothing
\* new on the remote) or a page written elsewhere, without frontmatter
RemoteFiles == {[exists |-> TRUE, content |-> <<"b">>, metadata |-> NoMetadata]}

Pulled(fs) == {fs} \cup [Paths -> RemoteFiles]

\* success = service.pull(); git refuses to rebase onto a working copy with
\* uncommitted changes, so True needs a clean one
SyncFromPull ==
  /\ jkind = "sync_from_remote"
  /\ jpc = "pull"
  /\ \E r \in pull :
       /\ r = "True" => ~dirty
       /\ jargs' = [jargs EXCEPT !.result = r,
                                 !.raised = IF r = "raise" THEN "pull" ELSE "none"]
       /\ jpc' = IF r = "raise" THEN ExceptHandler ELSE IF r = "True" THEN "dispatch" ELSE "complete"
       /\ jlogs' = IF r = "True" THEN Append(jlogs, "Pulled changes from remote") ELSE jlogs
       /\ files' \in (IF r = "True" THEN Pulled(files) ELSE {files})
  /\ events' = Append(events, "pull")
  /\ UNCHANGED <<index, dirty, clock, jkind, jtask, response>>
  /\ UNCHANGED <<ledgerVars, auxVars>>

\* the three steps after a pull, each returning: dispatch_task(
\* "wiki.rebuild_search_index"), invalidate_sidebar_cache(), warm_sidebar_cache.delay()
SyncFromNext(pc) ==
  IF pc = "dispatch" THEN "invalidate" ELSE IF pc = "invalidate" THEN "warm" ELSE "complete"

SyncFromStep ==
  /\ jkind = "sync_from_remote"
  /\ jpc \in {"dispatch", "invalidate", "warm"}
  /\ events' = Append(events, jpc)
  /\ jlogs' = Append(jlogs, jpc)
  /\ jpc' = SyncFromNext(jpc)
  /\ UNCHANGED <<files, index, dirty, clock, jkind, jargs, jtask, response>>
  /\ UNCHANGED <<ledgerVars, auxVars>>

\* one of the three raises
SyncFromRaise ==
  /\ jkind = "sync_from_remote"
  /\ jpc \in {"dispatch", "invalidate", "warm"}
  /\ jargs' = [jargs EXCEPT !.raised = jpc]
  /\ jpc' = ExceptHandler
  /\ UNCHANGED <<files, index, dirty, clock, jkind, jtask, jlogs, events, response>>
  /\ UNCHANGED <<ledgerVars, auxVars>>

\* task.complete(success=True) after a pull, or with "No changes to pull"; return success
SyncFromComplete ==
  /\ jkind = "sync_from_remote"
  /\ jpc = "complete"
  /\ Finish(TRUE, IF jargs.result = "True" THEN << >> ELSE <<"No changes to pull">>)
  /\ response' = "return"
  /\ UNCHANGED <<files, index, dirty, clock, jkind, jargs>>
  /\ UNCHANGED <<ledgerVars, auxVars>>

\* except Exception: task.complete(success=False, ...); raise
SyncFromExcept ==
  /\ jkind = "sync_from_remote"
  /\ jpc = "except"
  /\ Finish(FALSE, <<"Failed to sync from remote">>)
  /\ response' = "raise"
  /\ UNCHANGED <<files, index, dirty, clock, jkind, jargs>>
  /\ UNCHANGED <<ledgerVars, auxVars>>

\* --- rebuild_search_index(task_id), against the store
RebuildStart ==
  /\ Begin("rebuild_search_index", NoArgs)
  /\ jpc' = "rebuild"
  /\ UNCHANGED <<files, index, dirty, clock>>
  /\ UNCHANGED <<ledgerVars, auxVars>>

\* every listed page is read, then search_service.rebuild_index(pages)
\* replaces the whole index
rebuild_index(fs) ==
  [p \in Paths |-> IF fs[p].exists THEN <<get_page(fs[p]).content>> ELSE << >>]

RebuildRun ==
  /\ jkind = "rebuild_search_index"
  /\ jpc = "rebuild"
  /\ index' = rebuild_index(files)
  /\ events' = Append(events, "index")
  /\ jpc' = "complete"
  /\ UNCHANGED <<files, dirty, clock, jkind, jargs, jtask, jlogs, response>>
  /\ UNCHANGED <<ledgerVars, auxVars>>

\* list_pages, get_page or rebuild_index raises
RebuildRaise ==
  /\ jkind = "rebuild_search_index"
  /\ jpc = "rebuild"
  /\ jargs' = [jargs EXCEPT !.raised = "rebuild"]
  /\ jpc' = ExceptHandler
  /\ UNCHANGED <<files, index, dirty, clock, jkind, jtask, jlogs, events, response>>
  /\ UNCHANGED <<ledgerVars, auxVars>>

\* task.complete(success=True, logs="Indexed N pages successfully")
RebuildComplete ==
  /\ jkind = "rebuild_search_index"
  /\ jpc = "complete"
  /\ Finish(TRUE, <<"Indexed">>)
  /\ UNCHANGED <<files, index, dirty, clock, jkind, jargs, response>>
  /\ UNCHANGED <<ledgerVars, auxVars>>

\* except Exception: task.complete(success=False, ...); raise
RebuildExcept ==
  /\ jkind = "rebuild_search_index"
  /\ jpc = "except"
  /\ Finish(FALSE, <<"Failed to rebuild index">>)
  /\ UNCHANGED <<files, index, dirty, clock, jkind, jargs, response>>
  /\ UNCHANGED <<ledgerVars, auxVars>>

\* ------------------------------------------------------------ the sidebar
\* A page path is the sequence of its segments: <<"docs", "a">> is "docs/a".
SidebarPaths == {<<"index">>, <<"Sidebar">>, <<"archive", "x">>, <<"docs", "a">>}

\* humanize_slug(slug), for the segments of SidebarPaths
humanize_slug(slug) ==
  CASE slug = "index" -> "Index"
    [] slug = "Sidebar" -> "Sidebar"
    [] slug = "x" -> "X"
    [] slug = "a" -> "A"
    [] slug = "archive" -> "Archive"
    [] slug = "docs" -> "Docs"

\* the strings of the model in the order of Python's str comparison
StringOrder == <<"A", "Archive", "Docs", "Index", "Sidebar", "T1", "X",
                 "a", "archive", "docs", "index", "x">>

Rank(s) == CHOOSE k \in 1..Len(StringOrder) : StringOrder[k] = s

\* sorted(S, key): the elements of S by ascending key; equal keys keep the
\* order in which the title map lists them (taken here as the order of the
\* path's last segment)
RECURSIVE Sorted(_, _)
Sorted(S, key) ==
  IF S = {} THEN << >>
  ELSE LET least == CHOOSE e \in S : \A o \in S :
                      \/ Rank(key[e]) < Rank(key[o])
                      \/ Rank(key[e]) = Rank(key[o]) /\ Rank(e[Len(e)]) <= Rank(o[Len(o)])
       IN <<least>> \o Sorted(S \ {least}, key)

\* GitStorageService.get_page_titles(): the title of every page file, the
\* humanized last segment for a page without one
get_page_titles(ps) ==
  [p \in {q \in SidebarPaths : ps[q] # "absent"} |->
     IF ps[p] # "None" THEN ps[p] ELSE humanize_slug(p[Len(p)])]

\* excluded = {"Sidebar"}
excluded == {<<"Sidebar">>}

\* p.startswith("archive/")
StartsWithArchive(p) == Len(p) > 1 /\ p[1] = "archive"

\* page_path.split("/")[0] if "/" in page_path else "_general"
CategorySlugLastSegment(p) == IF Len(p) > 1 THEN p[Len(p)] ELSE "_general"

category_slug(p) == IF Len(p) > 1 THEN p[1] ELSE "_general"

\* one SidebarCategory of _build_sidebar_structure
SidebarCategory(slug, listed, page_titles) ==
  [name |-> IF slug = "_general" THEN "General" ELSE humanize_slug(slug),
   slug |-> slug,
   items |-> LET own == {p \in listed : category_slug(p) = slug}
                 sorted == Sorted(own, page_titles)
             IN [k \in 1..Len(sorted) |->
                   [path |-> sorted[k], title |-> page_titles[sorted[k]], is_current |-> FALSE]],
   is_expanded |-> FALSE]

\* _build_sidebar_structure(page_titles): "General" first, then the other
\* categories by slug
BuildListsEveryPage(page_titles) ==
  LET listed == DOMAIN page_titles
      slugs == {category_slug(p) : p \in listed}
      general == IF "_general" \in slugs
                   THEN <<SidebarCategory("_general", listed, page_titles)>> ELSE << >>
      others == Sorted({<<s>> : s \in slugs \ {"_general"}}, [e \in {<<s>> : s \in slugs} |-> e[1]])
  IN general \o [k \in 1..Len(others) |-> SidebarCategory(others[k][1], listed, page_titles)]

_build_sidebar_structure(page_titles) ==
  LET listed == {p \in DOMAIN page_titles : p \notin excluded /\ ~StartsWithArchive(p)}
      slugs == {category_slug(p) : p \in listed}
      general == IF "_general" \in slugs
                   THEN <<SidebarCategory("_general", listed, page_titles)>> ELSE << >>
      others == Sorted({<<s>> : s \in slugs \ {"_general"}}, [e \in {<<s>> : s \in slugs} |-> e[1]])
  IN general \o [k \in 1..Len(others) |-> SidebarCategory(others[k][1], listed, page_titles)]

SIDEBAR_CACHE_KEY == "wiki_sidebar_pages"
SIDEBAR_STRUCTURE_CACHE_KEY == "wiki_sidebar_structure"
\* wiki/services/widgets.py
WIDGETS_RECENTLY_UPDATED_KEY == "wiki_widgets_recently_updated"
WIDGETS_RECENTLY_STALE_KEY == "wiki_widgets_recently_stale"

WidgetKeys == {WIDGETS_RECENTLY_UPDATED_KEY, WIDGETS_RECENTLY_STALE_KEY}

CacheKeys == {SIDEBAR_CACHE_KEY, SIDEBAR_STRUCTURE_CACHE_KEY} \cup WidgetKeys

\* cache.get(key) is None
Miss == [hit |-> FALSE, value |-> << >>]

\* cache.set(key, value, SIDEBAR_CACHE_TTL)
cache_set(c, key, value) == [c EXCEPT ![key] = [hit |-> TRUE, value |-> value]]

\* cache.delete(key); also what the timeout of a key does to it
cache_delete(c, key) == [c EXCEPT ![key] = Miss]

\* invalidate_sidebar_cache()
InvalidateTitlesOnly(c) == cache_delete(c, SIDEBAR_CACHE_KEY)

invalidate_sidebar_cache(c) ==
  cache_delete(cache_delete(c, SIDEBAR_CACHE_KEY), SIDEBAR_STRUCTURE_CACHE_KEY)

\* _get_page_titles(): the cached title map, else the store's, cached
_get_page_titles(c, ps) ==
  IF c[SIDEBAR_CACHE_KEY].hit
    THEN [pages |-> c[SIDEBAR_CACHE_KEY].value, cache |-> c, queried |-> 0]
    ELSE [pages |-> get_page_titles(ps),
          cache |-> cache_set(c, SIDEBAR_CACHE_KEY, get_page_titles(ps)),
          queried |-> 1]

\* current_path.split("/")[0] if "/" in current_path else "_general", and
\* the clone of the structure that marks the current page
MarkCurrentExpandsAll(categories, current_path) ==
  [k \in 1..Len(categories) |->
     [categories[k] EXCEPT
        !.is_expanded = TRUE,
        !.items = [j \in 1..Len(categories[k].items) |->
                     [categories[k].items[j] EXCEPT
                        !.is_current = (categories[k].items[j].path = current_path)]]]]

MarkCurrent(categories, current_path) ==
  [k \in 1..Len(categories) |->
     [categories[k] EXCEPT
        !.is_expanded = (categories[k].slug = category_slug(current_path)),
        !.items = [j \in 1..Len(categories[k].items) |->
                     [categories[k].items[j] EXCEPT
                        !.is_current = (categories[k].items[j].path = current_path)]]]]

\* get_sidebar_categories(current_path); << >> is "no current path"
get_sidebar_categories(c, ps, current_path) ==
  LET got == _get_page_titles(c, ps)
      res == IF c[SIDEBAR_STRUCTURE_CACHE_KEY].hit
               THEN [categories |-> c[SIDEBAR_STRUCTURE_CACHE_KEY].value, cache |-> c, queried |-> 0]
               ELSE [categories |-> _build_sidebar_structure(got.pages),
                     cache |-> cache_set(got.cache, SIDEBAR_STRUCTURE_CACHE_KEY,
                                         _build_sidebar_structure(got.pages)),
                     queried |-> got.queried]
  IN [out |-> IF current_path = << >> THEN res.categories
              ELSE MarkCurrent(res.categories, current_path),
      cache |-> res.cache, queried |-> res.queried]

\* a request renders the sidebar (core.context_processors)
SidebarRead ==
  /\ \E current_path \in SidebarPaths \cup {<< >>} :
       LET r == get_sidebar_categories(cache, pages, current_path)
       IN /\ cache' = r.cache
          /\ call' = [fn |-> "get_sidebar_categories", arg |-> current_path, out |-> r.out]
          /\ reads' = IF reads < MaxReads THEN reads + 1 ELSE reads
          /\ queries' = IF reads < MaxReads THEN queries + r.queried ELSE queries
  /\ UNCHANGED <<pages, since>>
  /\ UNCHANGED <<ledgerVars, storeVars, searchVars, repo>>

\* invalidate_sidebar_cache() called after a page edit
SidebarInvalidate ==
  /\ cache' = invalidate_sidebar_cache(cache)
  /\ since' = "invalidate"
  /\ reads' = 0
  /\ queries' = 0
  /\ call' = NoCall
  /\ UNCHANGED pages
  /\ UNCHANGED <<ledgerVars, storeVars, searchVars, repo>>

\* a key reaches SIDEBAR_CACHE_TTL
SidebarExpire ==
  /\ \E key \in CacheKeys :
       /\ cache[key].hit
       /\ cache' = cache_delete(cache, key)
  /\ since' = "expire"
  /\ reads' = 0
  /\ queries' = 0
  /\ call' = NoCall
  /\ UNCHANGED pages
  /\ UNCHANGED <<ledgerVars, storeVars, searchVars, repo>>

\* warm_sidebar_cache()
SidebarWarm ==
  /\ cache' = cache_set(cache_set(cache, SIDEBAR_CACHE_KEY, get_page_titles(pages)),
                        SIDEBAR_STRUCTURE_CACHE_KEY,
                        _build_sidebar_structure(get_page_titles(pages)))
  /\ since' = "warm"
  /\ reads' = 0
  /\ queries' = 0
  /\ call' = [fn |-> "warm_sidebar_cache", arg |-> << >>, out |-> Cardinality(DOMAIN get_page_titles(pages))]
  /\ UNCHANGED pages
  /\ UNCHANGED <<ledgerVars, storeVars, searchVars, repo>>

\* the titles a save may give a page: none for every page, "T1" for the
\* pages the sidebar lists
PageTitles(p) == IF p \in {<<"index">>, <<"docs", "a">>} THEN {"None", "T1"} ELSE {"None"}

\* a page file is written, with or without a title, or deleted
SidebarSave ==
  /\ \E p \in SidebarPaths :
     \E t \in PageTitles(p) \cup {"absent"} :
       /\ pages[p] # t
       /\ pages' = [pages EXCEPT ![p] = t]
  /\ since' = "save"
  /\ reads' = 0
  /\ queries' = 0
  /\ call' = NoCall
  /\ UNCHANGED cache
  /\ UNCHANGED <<ledgerVars, storeVars, searchVars, repo>>

\* --- _build_sidebar_structure called on its own, over every title map of
\* a few pages: top-level pages, the excluded ones, and pages in three folders.
\* The function reads nothing but its argument, so one call per behaviour
\* covers every input.
BuildPaths ==
  {<<"index">>, <<"Sidebar">>, <<"archive", "x">>, <<"docs", "a">>, <<"docs", "x">>,
   <<"a", "x">>, <<"x", "a">>}

TitleMaps ==
  UNION {[S -> {"T1", "A"}] : S \in SUBSET BuildPaths}

BuildStructure ==
  /\ call = NoCall
  /\ \E page_titles \in TitleMaps :
       call' = [fn |-> "_build_sidebar_structure", arg |-> page_titles,
                out |-> _build_sidebar_structure(page_titles)]
  /\ UNCHANGED <<ledgerVars, storeVars, sidebarVars, searchVars, repo>>

\* --- the widgets of the index page (wiki/services/widgets.py)
\* the (path, title) entries of the pages of S that the store holds, as a
\* list; the order (by date in the code) is not modelled and taken by title
WidgetEntries(ps, S) ==
  LET page_titles == get_page_titles(ps)
      sorted == Sorted(DOMAIN page_titles \cap S, page_titles)
  IN [k \in 1..Len(sorted) |-> [path |-> sorted[k], title |-> page_titles[sorted[k]]]]

\* seq[:limit]
Take(seq, limit) == SubSeq(seq, 1, IF limit < Len(seq) THEN limit ELSE Len(seq))

\* get_recently_updated(limit): the cached list, else the first limit dated
\* pages of the store (every page written by save_page carries
\* last_updated), cached
get_recently_updated(c, ps, limit) ==
  IF c[WIDGETS_RECENTLY_UPDATED_KEY].hit
    THEN [out |-> c[WIDGETS_RECENTLY_UPDATED_KEY].value, cache |-> c]
    ELSE LET result == Take(WidgetEntries(ps, SidebarPaths), limit)
         IN [out |-> result, cache |-> cache_set(c, WIDGETS_RECENTLY_UPDATED_KEY, result)]

\* get_recently_stale(limit): the cached list, else the first limit pages
\* between STALE_MIN_DAYS and STALE_MAX_DAYS old (aged: the pages whose date
\* is in that window when the call is made), cached; [] is not None: a hit
get_recently_stale(c, ps, limit, aged) ==
  IF c[WIDGETS_RECENTLY_STALE_KEY].hit
    THEN [out |-> c[WIDGETS_RECENTLY_STALE_KEY].value, cache |-> c]
    ELSE LET result == Take(WidgetEntries(ps, aged), limit)
         IN [out |-> result, cache |-> cache_set(c, WIDGETS_RECENTLY_STALE_KEY, result)]

\* invalidate_widget_cache()
invalidate_widget_cache(c) ==
  cache_delete(cache_delete(c, WIDGETS_RECENTLY_UPDATED_KEY), WIDGETS_RECENTLY_STALE_KEY)

\* invalidate_wiki_caches()
invalidate_wiki_caches(c) == invalidate_widget_cache(invalidate_sidebar_cache(c))

\* the index page is rendered: get_recently_updated(limit=8), then
\* get_recently_stale(limit=8); the pages here were written by a save just
\* now, so none is in the stale window
IndexLimit == 8

WidgetsRead ==
  /\ LET u == get_recently_updated(cache, pages, IndexLimit)
         r == get_recently_stale(u.cache, pages, IndexLimit, {})
     IN /\ cache' = r.cache
        /\ call' = [fn |-> "widgets", arg |-> << >>, out |-> <<u.out, r.out>>]
  /\ since' = "widgets"
  /\ reads' = 0
  /\ queries' = 0
  /\ UNCHANGED pages
  /\ UNCHANGED <<ledgerVars, storeVars, searchVars, repo>>

\* a widget getter called with a limit of its caller's choice, over pages
\* of any age
Limits == {1, 2}

WidgetsUpdated ==
  /\ \E limit \in Limits :
       LET r == get_recently_updated(cache, pages, limit)
       IN /\ cache' = r.cache
          /\ call' = [fn |-> "get_recently_updated", limit |-> limit,
                      hit |-> cache[WIDGETS_RECENTLY_UPDATED_KEY].hit, out |-> r.out]
  /\ UNCHANGED <<pages, since, reads, queries>>
  /\ UNCHANGED <<ledgerVars, storeVars, searchVars, repo>>

WidgetsStale ==
  /\ \E limit \in Limits, aged \in SUBSET {<<"index">>, <<"docs", "a">>} :
       LET r == get_recently_stale(cache, pages, limit, aged)
       IN /\ cache' = r.cache
          /\ call' = [fn |-> "get_recently_stale", limit |-> limit,
                      hit |-> cache[WIDGETS_RECENTLY_STALE_KEY].hit, out |-> r.out]
  /\ UNCHANGED <<pages, since, reads, queries>>
  /\ UNCHANGED <<ledgerVars, storeVars, searchVars, repo>>

\* invalidate_wiki_caches() called after a content change
WikiInvalidate ==
  /\ cache' = invalidate_wiki_caches(cache)
  /\ since' = "invalidate"
  /\ reads' = 0
  /\ queries' = 0
  /\ call' = NoCall
  /\ UNCHANGED pages
  /\ UNCHANGED <<ledgerVars, storeVars, searchVars, repo>>

\* --- the content-changing operations with the invalidation each calls
\* the operations that change content and the invalidation each one calls:
\* the task save_and_sync and sync_from_remote call invalidate_sidebar_cache(),
\* the views call invalidate_wiki_caches()
TaskOps == {"save_and_sync", "sync_from_remote"}

ViewOps == {"edit", "delete", "move", "archive", "restore"}

\* what an operation writes to the page files: a save creates a page or
\* changes its title (the cases in which it goes on to invalidate), a pull
\* brings one such change, a delete removes a page, move_page takes a page
\* to a free path; the archived copy of a page is archive/x here
Listable == {<<"index">>, <<"docs", "a">>}

Moved(ps, old, new) == [ps EXCEPT ![old] = "absent", ![new] = ps[old]]

Written(ps, name) ==
  CASE name \in {"save_and_sync", "edit", "sync_from_remote"} ->
         {[ps EXCEPT ![p] = t] : p \in Listable, t \in {"None", "T1"}} \ {ps}
    [] name = "delete" ->
         {[ps EXCEPT ![p] = "absent"] : p \in Listable} \ {ps}
    [] name = "move" ->
         {Moved(ps, old, new) : old \in {p \in Listable : ps[p] # "absent"},
                                new \in {p \in Listable : ps[p] = "absent"}}
    [] name = "archive" ->
         IF ps[<<"archive", "x">>] # "absent" THEN {}
         ELSE {Moved(ps, old, <<"archive", "x">>) : old \in {p \in Listable : ps[p] # "absent"}}
    [] name = "restore" ->
         IF ps[<<"archive", "x">>] = "absent" THEN {}
         ELSE {Moved(ps, <<"archive", "x">>, new) : new \in {p \in Listable : ps[p] = "absent"}}

\* the invalidation an operation calls once it has written
Invalidation(name, c) ==
  IF name \in ViewOps THEN invalidate_wiki_caches(c) ELSE invalidate_sidebar_cache(c)

\* a content-changing operation, whole: the write, then the invalidation
ContentChange ==
  /\ \E name \in TaskOps \cup ViewOps :
     \E ps \in Written(pages, name) :
       /\ pages' = ps
       /\ cache' = Invalidation(name, cache)
       /\ call' = [fn |-> name, arg |-> << >>, out |-> << >>]
  /\ since' = "save"
  /\ reads' = 0
  /\ queries' = 0
  /\ UNCHANGED <<ledgerVars, storeVars, searchVars, repo>>

ChangeNext ==
  \/ ContentChange
  \/ WidgetsRead
  \/ SidebarWarm

\* --- the sidebar cache under concurrency: one request rendering the
\* sidebar, one warm_sidebar_cache task and one content-changing operation run
\* at once; every cache and store call is a step of its own. call holds the
\* three positions and the locals: rd (get_sidebar_categories), wm
\* (warm_sidebar_cache), op (the content change and its
\* invalidate_sidebar_cache()).
RaceIdle ==
  [fn |-> "race",
   rd |-> [pc |-> "idle", page_titles |-> << >>],
   wm |-> [pc |-> "idle", pages |-> << >>],
   op |-> [pc |-> "idle"]]

\* categories = cache.get(SIDEBAR_STRUCTURE_CACHE_KEY); a hit is returned
RaceReadStructure ==
  /\ call.fn = "race"
  /\ call.rd.pc = "idle"
  /\ ~cache[SIDEBAR_STRUCTURE_CACHE_KEY].hit
  /\ call' = [call EXCEPT !.rd.pc = "get_titles"]
  /\ UNCHANGED <<ledgerVars, storeVars, sidebarVars, searchVars, repo>>

\* _get_page_titles(): pages = cache.get(SIDEBAR_CACHE_KEY)
RaceReadTitles ==
  /\ call.fn = "race"
  /\ call.rd.pc = "get_titles"
  /\ call' = IF cache[SIDEBAR_CACHE_KEY].hit
               THEN [call EXCEPT !.rd = [pc |-> "set_structure",
                                         page_titles |-> cache[SIDEBAR_CACHE_KEY].value]]
               ELSE [call EXCEPT !.rd.pc = "storage"]
  /\ UNCHANGED <<ledgerVars, storeVars, sidebarVars, searchVars, repo>>

\* pages = storage.get_page_titles()
RaceReadStorage ==
  /\ call.fn = "race"
  /\ call.rd.pc = "storage"
  /\ call' = [call EXCEPT !.rd = [pc |-> "set_titles", page_titles |-> get_page_titles(pages)]]
  /\ UNCHANGED <<ledgerVars, storeVars, sidebarVars, searchVars, repo>>

\* cache.set(SIDEBAR_CACHE_KEY, pages, SIDEBAR_CACHE_TTL)
RaceReadSetTitles ==
  /\ call.fn = "race"
  /\ call.rd.pc = "set_titles"
  /\ cache' = cache_set(cache, SIDEBAR_CACHE_KEY, call.rd.page_titles)
  /\ call' = [call EXCEPT !.rd.pc = "set_structure"]
  /\ UNCHANGED <<pages, since, reads, queries>>
  /\ UNCHANGED <<ledgerVars, storeVars, searchVars, repo>>

\* categories = _build_sidebar_structure(page_titles);
\* cache.set(SIDEBAR_STRUCTURE_CACHE_KEY, categories, SIDEBAR_CACHE_TTL)
RaceReadSetStructure ==
  /\ call.fn = "race"
  /\ call.rd.pc = "set_structure"
  /\ cache' = cache_set(cache, SIDEBAR_STRUCTURE_CACHE_KEY,
                        _build_sidebar_structure(call.rd.page_titles))
  /\ call' = [call EXCEPT !.rd = RaceIdle.rd]
  /\ UNCHANGED <<pages, since, reads, queries>>
  /\ UNCHANGED <<ledgerVars, storeVars, searchVars, repo>>

\* warm_sidebar_cache: pages = storage.get_page_titles()
RaceWarmStorage ==
  /\ call.fn = "race"
  /\ call.wm.pc = "idle"
  /\ call' = [call EXCEPT !.wm = [pc |-> "set_titles", pages |-> get_page_titles(pages)]]
  /\ UNCHANGED <<ledgerVars, storeVars, sidebarVars, searchVars, repo>>

\* cache.set(SIDEBAR_CACHE_KEY, pages, SIDEBAR_CACHE_TTL)
RaceWarmSetTitles ==
  /\ call.fn = "race"
  /\ call.wm.pc = "set_titles"
  /\ cache' = cache_set(cache, SIDEBAR_CACHE_KEY, call.wm.pages)
  /\ call' = [call EXCEPT !.wm.pc = "set_structure"]
  /\ UNCHANGED <<pages, since, reads, queries>>
  /\ UNCHANGED <<ledgerVars, storeVars, searchVars, repo>>

\* structure = _build_sidebar_structure(pages);
\* cache.set(SIDEBAR_STRUCTURE_CACHE_KEY, structure, SIDEBAR_CACHE_TTL)
RaceWarmSetStructure ==
  /\ call.fn = "race"
  /\ call.wm.pc = "set_structure"
  /\ cache' = cache_set(cache, SIDEBAR_STRUCTURE_CACHE_KEY,
                        _build_sidebar_structure(call.wm.pages))
  /\ call' = [call EXCEPT !.wm = RaceIdle.wm]
  /\ UNCHANGED <<pages, since, reads, queries>>
  /\ UNCHANGED <<ledgerVars, storeVars, searchVars, repo>>

\* save_and_sync writes the page file: a new page or a new title, so that
\* it goes on to invalidate
RaceWrite ==
  /\ call.fn = "race"
  /\ call.op.pc = "idle"
  /\ \E ps \in Written(pages, "save_and_sync") :
       /\ pages' = ps
       /\ call' = [call EXCEPT !.op.pc = "delete_titles"]
  /\ since' = "save"
  /\ UNCHANGED <<cache, reads, queries>>
  /\ UNCHANGED <<ledgerVars, storeVars, searchVars, repo>>

\* invalidate_sidebar_cache(): cache.delete(SIDEBAR_CACHE_KEY)
RaceDeleteTitles ==
  /\ call.fn = "race"
  /\ call.op.pc = "delete_titles"
  /\ cache' = cache_delete(cache, SIDEBAR_CACHE_KEY)
  /\ call' = [call EXCEPT !.op.pc = "delete_structure"]
  /\ UNCHANGED <<pages, since, reads, queries>>
  /\ UNCHANGED <<ledgerVars, storeVars, searchVars, repo>>

\* cache.delete(SIDEBAR_STRUCTURE_CACHE_KEY)
RaceDeleteStructure ==
  /\ call.fn = "race"
  /\ call.op.pc = "delete_structure"
  /\ cache' = cache_delete(cache, SIDEBAR_STRUCTURE_CACHE_KEY)
  /\ call' = [call EXCEPT !.op.pc = "idle"]
  /\ UNCHANGED <<pages, since, reads, queries>>
  /\ UNCHANGED <<ledgerVars, storeVars, searchVars, repo>>

RaceNext ==
  \/ RaceReadStructure
  \/ RaceReadTitles
  \/ RaceReadStorage
  \/ RaceReadSetTitles
  \/ RaceReadSetStructure
  \/ RaceWarmStorage
  \/ RaceWarmSetTitles
  \/ RaceWarmSetStructure
  \/ RaceWrite
  \/ RaceDeleteTitles
  \/ RaceDeleteStructure

\* --------------------------------------------------------- the search index
\* SearchService over the wiki_fts table. A row is a (path, content) pair.
SearchPaths == {"p", "q"}

Letters == {"a", "b"}

\* the characters of a content or a query: letters, the space, and two
\* characters that are not part of an FTS5 bareword
SearchChars == Letters \cup {" ", "%", ")"}

SearchContents == {<<"a", "b">>, <<"a", "%">>, <<"b">>}

Queries == UNION {[1..n -> SearchChars] : n \in 0..MaxQueryLen}

\* the lists that rebuild_index is given: one dict per listed page, in the
\* order of list_pages (sorted paths, each once)
PageLists ==
  {<< >>}
    \cup {<<[path |-> p, content |-> c]>> : p \in SearchPaths, c \in SearchContents}
    \cup {<<[path |-> "p", content |-> c], [path |-> "q", content |-> d]>> :
            c \in SearchContents, d \in SearchContents}

\* DELETE FROM wiki_fts WHERE path = ?
DeleteWherePath(rows, path) == SelectSeq(rows, LAMBDA r : r.path # path)

\* SearchService.add_page(path, content) on the table
AddPageInsertOnly(rows, path, content) ==
  Append(rows, [path |-> path, content |-> content])

add_page_rows(rows, path, content) ==
  Append(DeleteWherePath(rows, path), [path |-> path, content |-> content])

\* SearchService.remove_page(path) on the table
remove_page_rows(rows, path) == DeleteWherePath(rows, path)

\* SearchService.rebuild_index(pages) on the table: DELETE FROM wiki_fts,
\* then one INSERT per page; returns len(pages)
RebuildKeepsRows(rows, page_list) ==
  [rows |-> rows \o [k \in 1..Len(page_list) |-> [path |-> page_list[k].path, content |-> page_list[k].content]],
   out |-> Len(page_list)]

rebuild_index_rows(rows, page_list) ==
  [rows |-> [k \in 1..Len(page_list) |-> [path |-> page_list[k].path, content |-> page_list[k].content]],
   out |-> Len(page_list)]

\* query.replace('"', '""')
RECURSIVE EscapeQuotes(_)
EscapeQuotes(s) ==
  IF s = << >> THEN s
  ELSE (IF Head(s) = "\"" THEN <<"\"", "\"">> ELSE <<Head(s)>>) \o EscapeQuotes(Tail(s))

\* the words the unicode61 tokenizer finds in a text: the maximal runs of
\* letters
RECURSIVE WordsFrom(_, _)
WordsFrom(s, word) ==
  IF s = << >> THEN (IF word = << >> THEN {} ELSE {word})
  ELSE IF Head(s) \in Letters THEN WordsFrom(Tail(s), Append(word, Head(s)))
  ELSE (IF word = << >> THEN {} ELSE {word}) \cup WordsFrom(Tail(s), << >>)

Words(s) == WordsFrom(s, << >>)

\* wiki_fts MATCH ? raises sqlite3.OperationalError ("fts5: syntax error"):
\* the query has a character that is neither part of a bareword nor, among
\* these characters, the start of any other FTS5 token
Malformed(safe_query) == \E k \in 1..Len(safe_query) : safe_query[k] \in {"%", ")"}

\* wiki_fts MATCH ? for a query of barewords: every word occurs in a column
\* of the row (a path of this model is one word)
Match(row, safe_query) == Words(safe_query) \subseteq (Words(row.content) \cup {<<row.path>>})

\* content LIKE pattern: % is any run of characters, _ any one character
RECURSIVE Like(_, _)
Like(text, pattern) ==
  IF pattern = << >> THEN text = << >>
  ELSE IF Head(pattern) = "%"
    THEN Like(text, Tail(pattern)) \/ (text # << >> /\ Like(Tail(text), pattern))
  ELSE /\ text # << >>
       /\ Head(pattern) = "_" \/ Head(pattern) = Head(text)
       /\ Like(Tail(text), Tail(pattern))

\* limit: int = 50
SearchLimit == 50

\* LIMIT ?
Limit(rows, limit) == SubSeq(rows, 1, IF Len(rows) < limit THEN Len(rows) ELSE limit)

\* SearchService.search(query). "snippet" and "bm25" stand for the FTS5
\* snippet and score of a matching row; the rows of a MATCH are listed in
\* table order.
search(rows, query) ==
  IF Strip(query) = << >> THEN [raised |-> FALSE, results |-> << >>]
  ELSE LET safe_query == EscapeQuotes(query)
           matched == Limit(SelectSeq(rows, LAMBDA r : Match(r, safe_query)), SearchLimit)
           liked == Limit(SelectSeq(rows, LAMBDA r : Like(r.content, <<"%">> \o query \o <<"%">>)),
                          SearchLimit)
       IN IF ~Malformed(safe_query)
            THEN [raised |-> FALSE,
                  results |-> [k \in 1..Len(matched) |->
                                 [path |-> matched[k].path, snippet |-> <<"snippet">>, score |-> "bm25"]]]
            ELSE [raised |-> FALSE,
                  results |-> [k \in 1..Len(liked) |->
                                 [path |-> liked[k].path,
                                  snippet |-> liked[k].content \o <<"...">>, score |-> "0"]]]

SearchAddPage ==
  /\ \E path \in SearchPaths, content \in SearchContents :
       /\ fts' = add_page_rows(fts, path, content)
       /\ call' = [fn |-> "add_page", path |-> path, content |-> content, before |-> fts]
  /\ UNCHANGED <<ledgerVars, storeVars, sidebarVars, repo>>

SearchRemovePage ==
  /\ \E path \in SearchPaths :
       /\ fts' = remove_page_rows(fts, path)
       /\ call' = [fn |-> "remove_page", path |-> path, before |-> fts]
  /\ UNCHANGED <<ledgerVars, storeVars, sidebarVars, repo>>

SearchRebuildIndex ==
  /\ \E page_list \in PageLists :
       /\ fts' = rebuild_index_rows(fts, page_list).rows
       /\ call' = [fn |-> "rebuild_index", pages |-> page_list, before |-> fts,
                   out |-> rebuild_index_rows(fts, page_list).out]
  /\ UNCHANGED <<ledgerVars, storeVars, sidebarVars, repo>>

SearchQuery ==
  /\ \E query \in Queries :
       call' = [fn |-> "search", query |-> query, before |-> fts, out |-> search(fts, query)]
  /\ UNCHANGED fts
  /\ UNCHANGED <<ledgerVars, storeVars, sidebarVars, repo>>

\* ------------------------------------------------- service functions
\* the characters of a path: the separator, the dot, a name character and the
\* null byte
PathChars == {"/", ".", "a", "NUL"}

PathInputs == UNION {[1..n -> PathChars] : n \in 0..MaxPathLen}

\* path.strip("/")
RECURSIVE LStripSlash(_)
LStripSlash(s) == IF s = << >> THEN s ELSE IF Head(s) = "/" THEN LStripSlash(Tail(s)) ELSE s

RECURSIVE RStripSlash(_)
RStripSlash(s) ==
  IF s = << >> THEN s
  ELSE IF s[Len(s)] = "/" THEN RStripSlash(SubSeq(s, 1, Len(s) - 1)) ELSE s

StripSlash(s) == RStripSlash(LStripSlash(s))

\* ".." in path
HasDotDot(s) == \E k \in 1..(Len(s) - 1) : s[k] = "." /\ s[k + 1] = "."

\* path.startswith("/")
StartsWithSlash(s) == s # << >> /\ s[1] = "/"

\* "\x00" in path
HasNull(s) == \E k \in 1..Len(s) : s[k] = "NUL"

InvalidPathError == [raised |-> TRUE, value |-> << >>]

\* validate_path(path): the checks run on the path after strip("/")
validate_path(path) ==
  IF path = << >> THEN InvalidPathError
  ELSE LET stripped == StripSlash(path)
       IN IF HasDotDot(stripped) THEN InvalidPathError
          ELSE IF StartsWithSlash(stripped) THEN InvalidPathError
          ELSE IF HasNull(stripped) THEN InvalidPathError
          ELSE [raised |-> FALSE, value |-> stripped]

ValidatePath ==
  /\ \E path \in PathInputs :
       call' = [fn |-> "validate_path", arg |-> path, out |-> validate_path(path)]
  /\ UNCHANGED <<ledgerVars, storeVars, sidebarVars, searchVars, repo>>

CommitAndPush ==
  /\ \E changed \in BOOLEAN, has_remote \in BOOLEAN, x \in CommitExits :
       call' = [fn |-> "commit_and_push", changed |-> changed, has_remote |-> has_remote,
                exits |-> x, out |-> GitCommitAndPush(changed, has_remote, x)]
  /\ UNCHANGED <<ledgerVars, storeVars, sidebarVars, searchVars, repo>>

Pull ==
  /\ \E has_remote \in BOOLEAN, x \in PullExits :
       call' = [fn |-> "pull", has_remote |-> has_remote, exits |-> x,
                out |-> GitPull(has_remote, x)]
  /\ UNCHANGED <<ledgerVars, storeVars, sidebarVars, searchVars, repo>>

\* --- GitStorageService over the filesystem: what exists under pages/ and
\* attachments/, and the filesystem calls each method makes, in order
StoragePaths ==
  {<< >>, <<"a">>, <<"/", "a">>, <<"a", "/", "a">>, <<"a", "/", ".", ".">>, <<"NUL">>}

Filenames == {<<"a">>, <<".", ".">>, <<"a", "/", "a">>, <<"a", "NUL">>}

\* "/" in filename
HasSlash(s) == \E k \in 1..Len(s) : s[k] = "/"

\* the directories mkdir(parents=True, exist_ok=True) makes sure of for a file
\* or directory at a relative path: one for each separator of the path
Parents(root, path) == {<<root, SubSeq(path, 1, k - 1)>> : k \in {j \in 1..Len(path) : path[j] = "/"}}

Raised == [raised |-> TRUE, ops |-> << >>, out |-> "InvalidPathError"]

\* get_page(path)
fs_get_page(t, path) ==
  LET v == validate_path(path)
  IN IF v.raised THEN Raised @@ [tree |-> t]
     ELSE IF <<"page", v.value>> \notin t
       THEN [raised |-> FALSE, ops |-> <<"exists">>, out |-> "None", tree |-> t]
       ELSE [raised |-> FALSE, ops |-> <<"exists", "read_text", "stat">>, out |-> "page", tree |-> t]

\* save_page(path, content, metadata) once the path is validated; changed:
\* the content or the user metadata differ from the stored page's
SavePageBody(t, value, changed) ==
  LET made == t \cup Parents("pagedir", value)
  IN IF <<"page", value>> \in t /\ ~changed
       THEN [raised |-> FALSE,
             ops |-> <<"mkdir", "exists", "exists", "read_text", "stat",
                       "exists", "read_text", "stat">>,
             out |-> "False", tree |-> made]
       ELSE [raised |-> FALSE,
             ops |-> <<"mkdir", "exists">>
                       \o (IF <<"page", value>> \in t
                             THEN <<"exists", "read_text", "stat">> ELSE << >>)
                       \o <<"write_text">>,
             out |-> "True", tree |-> made \cup {<<"page", value>>}]

\* save_page(path, content, metadata)
SavePageMkdirFirst(t, path, changed) ==
  LET v == validate_path(path)
  IN IF v.raised
       THEN [raised |-> TRUE, ops |-> <<"mkdir">>, out |-> "InvalidPathError",
             tree |-> t \cup Parents("pagedir", StripSlash(path))]
       ELSE SavePageBody(t, v.value, changed)

fs_save_page(t, path, changed) ==
  LET v == validate_path(path)
  IN IF v.raised THEN Raised @@ [tree |-> t]
     ELSE SavePageBody(t, v.value, changed)

\* delete_page(path)
fs_delete_page(t, path) ==
  LET v == validate_path(path)
  IN IF v.raised THEN Raised @@ [tree |-> t]
     ELSE IF <<"page", v.value>> \in t
       THEN [raised |-> FALSE, ops |-> <<"exists", "unlink">>, out |-> "True",
             tree |-> t \ {<<"page", v.value>>}]
       ELSE [raised |-> FALSE, ops |-> <<"exists">>, out |-> "False", tree |-> t]

\* get_attachment_path(page_path, filename): the path is computed, nothing on
\* the filesystem is looked at
fs_get_attachment_path(t, page_path, filename) ==
  LET v == validate_path(page_path)
  IN IF v.raised THEN Raised @@ [tree |-> t]
     ELSE IF HasDotDot(filename) \/ HasSlash(filename) \/ HasNull(filename)
       THEN Raised @@ [tree |-> t]
       ELSE [raised |-> FALSE, ops |-> << >>, out |-> <<v.value, filename>>, tree |-> t]

\* save_attachment(page_path, filename, content)
fs_save_attachment(t, page_path, filename) ==
  LET got == fs_get_attachment_path(t, page_path, filename)
  IN IF got.raised THEN got
     ELSE [raised |-> FALSE, ops |-> <<"mkdir", "write_bytes">>, out |-> got.out,
           tree |-> t \cup Parents("attdir", got.out[1]) \cup {<<"attdir", got.out[1]>>}
                      \cup {<<"att", got.out[1], filename>>}]

\* list_attachments(page_path)
fs_list_attachments(t, page_path) ==
  LET v == validate_path(page_path)
  IN IF v.raised THEN Raised @@ [tree |-> t]
     ELSE IF <<"attdir", v.value>> \notin t
       THEN [raised |-> FALSE, ops |-> <<"exists">>, out |-> {}, tree |-> t]
       ELSE [raised |-> FALSE, ops |-> <<"exists", "iterdir">>,
             out |-> {e[3] : e \in {f \in t : Len(f) = 3 /\ f[1] = "att" /\ f[2] = v.value}},
             tree |-> t]

StorageGetPage ==
  /\ \E path \in StoragePaths :
       LET r == fs_get_page(repo, path)
       IN /\ call' = [fn |-> "get_page", arg |-> path, filename |-> << >>, out |-> r]
          /\ repo' = r.tree
  /\ UNCHANGED <<ledgerVars, storeVars, sidebarVars, searchVars>>

StorageSavePage ==
  /\ \E path \in StoragePaths, changed \in BOOLEAN :
       LET r == fs_save_page(repo, path, changed)
       IN /\ call' = [fn |-> "save_page", arg |-> path, filename |-> << >>, out |-> r]
          /\ repo' = r.tree
  /\ UNCHANGED <<ledgerVars, storeVars, sidebarVars, searchVars>>

StorageDeletePage ==
  /\ \E path \in StoragePaths :
       LET r == fs_delete_page(repo, path)
       IN /\ call' = [fn |-> "delete_page", arg |-> path, filename |-> << >>, out |-> r]
          /\ repo' = r.tree
  /\ UNCHANGED <<ledgerVars, storeVars, sidebarVars, searchVars>>

StorageGetAttachmentPath ==
  /\ \E path \in StoragePaths, filename \in Filenames :
       LET r == fs_get_attachment_path(repo, path, filename)
       IN /\ call' = [fn |-> "get_attachment_path", arg |-> path, filename |-> filename, out |-> r]
          /\ repo' = r.tree
  /\ UNCHANGED <<ledgerVars, storeVars, sidebarVars, searchVars>>

StorageSaveAttachment ==
  /\ \E path \in StoragePaths, filename \in Filenames :
       LET r == fs_save_attachment(repo, path, filename)
       IN /\ call' = [fn |-> "save_attachment", arg |-> path, filename |-> filename, out |-> r]
          /\ repo' = r.tree
  /\ UNCHANGED <<ledgerVars, storeVars, sidebarVars, searchVars>>

StorageListAttachments ==
  /\ \E path \in StoragePaths :
       LET r == fs_list_attachments(repo, path)
       IN /\ call' = [fn |-> "list_attachments", arg |-> path, filename |-> << >>, out |-> r]
          /\ repo' = r.tree
  /\ UNCHANGED <<ledgerVars, storeVars, sidebarVars, searchVars>>

StorageNext ==
  \/ StorageGetPage
  \/ StorageSavePage
  \/ StorageDeletePage
  \/ StorageGetAttachmentPath
  \/ StorageSaveAttachment
  \/ StorageListAttachments

\* --- the page file and the search index under concurrency: two saves of
\* the page (save_and_sync tasks or edit requests: both call save_page, then
\* add_page) and one rebuild_search_index task, each run once, every storage
\* and index call a step of its own. call holds the positions and the
\* locals: s (the saves), rb (the rebuild). Each index call is one SQLite
\* transaction.
WriterContents == {<<"a">>, <<"b">>}

Writers == {"s1", "s2"}

WritersIdle ==
  [fn |-> "writers",
   s |-> [w \in Writers |-> [pc |-> "idle", content |-> << >>]],
   rb |-> [pc |-> "idle", page_paths |-> << >>, pages |-> << >>]]

\* a save is called with its content
WriterStart ==
  /\ call.fn = "writers"
  /\ \E w \in Writers, content \in WriterContents :
       /\ call.s[w].pc = "idle"
       /\ call' = [call EXCEPT !.s[w] = [pc |-> "save_page", content |-> content]]
  /\ UNCHANGED <<ledgerVars, storeVars, sidebarVars, searchVars, repo>>

\* storage.save_page(page_path, content, metadata)
WriterSavePage ==
  /\ call.fn = "writers"
  /\ \E w \in Writers :
       /\ call.s[w].pc = "save_page"
       /\ LET f == files[Path]
              changed == content_changed(f, call.s[w].content, NoMetadata)
          IN /\ files' = [files EXCEPT ![Path] = save_page(f, call.s[w].content, NoMetadata, clock + 1)]
             /\ clock' = IF changed THEN clock + 1 ELSE clock
             /\ dirty' = (dirty \/ changed)
       /\ call' = [call EXCEPT !.s[w].pc = "add_page"]
  /\ UNCHANGED <<index, jkind, jpc, jargs, jtask, jlogs, events, response>>
  /\ UNCHANGED <<ledgerVars, sidebarVars, searchVars, repo>>

\* search_service.add_page(page_path, content); the rest of the save does
\* not touch the file or the index
WriterAddPage ==
  /\ call.fn = "writers"
  /\ \E w \in Writers :
       /\ call.s[w].pc = "add_page"
       /\ fts' = add_page_rows(fts, Path, call.s[w].content)
       /\ call' = [call EXCEPT !.s[w].pc = "done"]
  /\ UNCHANGED <<ledgerVars, storeVars, sidebarVars, repo>>

\* rebuild_search_index: page_paths = list(storage.list_pages())
WriterRebuildList ==
  /\ call.fn = "writers"
  /\ call.rb.pc = "idle"
  /\ call' = [call EXCEPT !.rb.pc = "loop",
                          !.rb.page_paths = IF files[Path].exists THEN <<Path>> ELSE << >>]
  /\ UNCHANGED <<ledgerVars, storeVars, sidebarVars, searchVars, repo>>

\* the loop: page = storage.get_page(path); if page: pages.append(...)
WriterRebuildRead ==
  /\ call.fn = "writers"
  /\ call.rb.pc = "loop"
  /\ call' = [call EXCEPT
       !.rb.pc = "rebuild_index",
       !.rb.pages = IF call.rb.page_paths # << >> /\ files[Path].exists
                      THEN <<[path |-> Path, content |-> get_page(files[Path]).content]>>
                      ELSE << >>]
  /\ UNCHANGED <<ledgerVars, storeVars, sidebarVars, searchVars, repo>>

\* search_service.rebuild_index(pages)
WriterRebuildIndex ==
  /\ call.fn = "writers"
  /\ call.rb.pc = "rebuild_index"
  /\ fts' = rebuild_index_rows(fts, call.rb.pages).rows
  /\ call' = [call EXCEPT !.rb.pc = "done"]
  /\ UNCHANGED <<ledgerVars, storeVars, sidebarVars, repo>>

WritersNext ==
  \/ WriterStart
  \/ WriterSavePage
  \/ WriterAddPage
  \/ WriterRebuildList
  \/ WriterRebuildRead
  \/ WriterRebuildIndex

\* --- the delete view (wiki/views.py), one POST at a time, over the page
\* files, the rows of the search index and the caches
DeletePaths == {<<"a">>, <<"a", "/">>, <<"/", "a">>, <<"a", "/", "a">>, <<"a", "/", ".", ".">>}

DeleteIdle == IF call.fn = "delete" THEN call.pc = "done" ELSE TRUE

\* wiki_page = storage.get_page(page_path): InvalidPathError gives 404, no
\* page gives the "Page not found" redirect
DeleteStart ==
  /\ DeleteIdle
  /\ \E page_path \in DeletePaths :
       LET got == fs_get_page(repo, page_path)
       IN call' = [fn |-> "delete", arg |-> page_path, existed |-> got.out = "page",
                   events |-> << >>,
                   pc |-> IF got.out = "page" THEN "delete_page" ELSE "done",
                   response |-> IF got.raised THEN "404"
                                ELSE IF got.out = "page" THEN "none" ELSE "redirect"]
  /\ UNCHANGED <<ledgerVars, storeVars, sidebarVars, searchVars, repo>>

\* deleted = storage.delete_page(page_path)
DeleteFile ==
  /\ call.fn = "delete"
  /\ call.pc = "delete_page"
  /\ LET r == fs_delete_page(repo, call.arg)
     IN /\ repo' = r.tree
        /\ call' = [call EXCEPT !.events = Append(@, "unlink"),
                                !.pc = IF r.out = "True" THEN "remove_page" ELSE "done",
                                !.response = IF r.out = "True" THEN "none" ELSE "redirect"]
  /\ UNCHANGED <<ledgerVars, storeVars, sidebarVars, searchVars>>

\* search_service.remove_page(page_path)
DeleteRemovePage ==
  /\ call.fn = "delete"
  /\ call.pc = "remove_page"
  /\ fts' = remove_page_rows(fts, call.arg)
  /\ call' = [call EXCEPT !.events = Append(@, "remove_page"), !.pc = "invalidate"]
  /\ UNCHANGED <<ledgerVars, storeVars, sidebarVars, repo>>

\* invalidate_wiki_caches()
DeleteInvalidate ==
  /\ call.fn = "delete"
  /\ call.pc = "invalidate"
  /\ cache' = invalidate_wiki_caches(cache)
  /\ call' = [call EXCEPT !.events = Append(@, "invalidate"), !.pc = "commit"]
  /\ UNCHANGED <<pages, since, reads, queries>>
  /\ UNCHANGED <<ledgerVars, storeVars, searchVars, repo>>

\* try: storage.commit_and_push(...) except Exception: logged
DeleteCommit ==
  /\ call.fn = "delete"
  /\ call.pc = "commit"
  /\ \E outcome \in {"True", "False", "raise"} :
       call' = [call EXCEPT !.events = Append(@, "commit_" \o outcome), !.pc = "notify"]
  /\ UNCHANGED <<ledgerVars, storeVars, sidebarVars, searchVars, repo>>

\* try: dispatch_task("wiki.send_teams_notification", ...) except Exception:
\* logged; return redirect(...)
DeleteNotify ==
  /\ call.fn = "delete"
  /\ call.pc = "notify"
  /\ \E raised \in BOOLEAN :
       call' = [call EXCEPT !.events = Append(@, IF raised THEN "notify_raised" ELSE "notify"),
                            !.pc = "done", !.response = "redirect"]
  /\ UNCHANGED <<ledgerVars, storeVars, sidebarVars, searchVars, repo>>

DeleteNext ==
  \/ DeleteStart
  \/ DeleteFile
  \/ DeleteRemovePage
  \/ DeleteInvalidate
  \/ DeleteCommit
  \/ DeleteNotify

InitLedger ==
  /\ task = NoTask
  /\ visible = FALSE
  /\ audit = << >>
  /\ txn = "none"
  /\ dpc = "idle"
  /\ dtask = NoTask
  /\ queue = 0
  /\ deliveries = 0
  /\ wpc = "idle"
  /\ wtask = NoTask
  /\ wi = 0
  /\ cpc = "idle"
  /\ ctask = NoTask
  /\ cancels = 0

InitStore(fs) ==
  /\ files = fs
  /\ index = [p \in Paths |-> << >>]
  /\ dirty = FALSE
  /\ clock = 0
  /\ jkind = "none"
  /\ jpc = "idle"
  /\ jargs = NoArgs
  /\ jtask = NoJobTask
  /\ jlogs = << >>
  /\ events = << >>
  /\ response = "none"

InitAux ==
  /\ call = NoCall
  /\ pages = [p \in SidebarPaths |-> "absent"]
  /\ cache = [key \in CacheKeys |-> Miss]
  /\ since = "start"
  /\ reads = 0
  /\ queries = 0
  /\ fts = << >>
  /\ repo = {}

Init == InitLedger /\ InitStore([p \in Paths |-> NoFile]) /\ InitAux

\* the wiki before a delete request: some of the pages a and a/a were saved
\* under these paths and indexed; the caches are empty or were filled by
\* requests made since
IndexedPages == {<<"a">>, <<"a", "/", "a">>}

InitDelete ==
  /\ InitLedger
  /\ InitStore([p \in Paths |-> NoFile])
  /\ call = NoCall
  /\ pages = [p \in SidebarPaths |-> "absent"]
  /\ since = "start"
  /\ reads = 0
  /\ queries = 0
  /\ \E S \in SUBSET IndexedPages :
       /\ repo = {<<"page", p>> : p \in S} \cup UNION {Parents("pagedir", p) : p \in S}
       /\ \E order \in {<<<<"a">>, <<"a", "/", "a">>>>, <<<<"a", "/", "a">>, <<"a">>>>} :
            fts = SelectSeq([k \in 1..2 |-> [path |-> order[k], content |-> <<"a">>]],
                            LAMBDA r : r.path \in S)
  /\ \E filled \in SUBSET CacheKeys :
       cache = [key \in CacheKeys |-> IF key \in filled THEN [hit |-> TRUE, value |-> << >>]
                                       ELSE Miss]

SpecDelete == InitDelete /\ [][DeleteNext]_vars

\* an empty wiki with cold caches and the three processes idle
InitRace ==
  /\ InitLedger
  /\ InitStore([p \in Paths |-> NoFile])
  /\ call = RaceIdle
  /\ pages = [p \in SidebarPaths |-> "absent"]
  /\ cache = [key \in CacheKeys |-> Miss]
  /\ since = "start"
  /\ reads = 0
  /\ queries = 0
  /\ fts = << >>
  /\ repo = {}

SpecRace == InitRace /\ [][RaceNext]_vars

SpecChange == Init /\ [][ChangeNext]_vars

\* the page is absent and not indexed, or came with the repository and was
\* indexed by a rebuild
InitWriters ==
  /\ InitLedger
  /\ \E f \in InitialFiles :
       /\ InitStore([p \in Paths |-> f])
       /\ fts = IF f.exists THEN <<[path |-> Path, content |-> get_page(f).content]>> ELSE << >>
  /\ call = WritersIdle
  /\ pages = [p \in SidebarPaths |-> "absent"]
  /\ cache = [key \in CacheKeys |-> Miss]
  /\ since = "start"
  /\ reads = 0
  /\ queries = 0
  /\ repo = {}

SpecWriters == InitWriters /\ [][WritersNext]_vars

Next ==
  \/ DispatchCreate
  \/ OuterCommit
  \/ OuterRollback
  \/ DispatchEnqueue
  \/ DispatchSaveId
  \/ DispatchFail
  \/ Redeliver
  \/ WorkerReceive
  \/ StartSave
  \/ StartAudit
  \/ ListPages
  \/ ProcessPage
  \/ CompleteOk
  \/ CompleteFail
  \/ CompleteAudit
  \/ CancelReject
  \/ CancelLoad
  \/ CancelSave
  \/ CancelRevokeAudit

Spec == Init /\ [][Next]_vars

\* the ledger under fair scheduling: a process that has a next step takes it.
\* The dispatching request goes on (delay() returns or raises, the id is
\* saved), the enclosing transaction ends (commit or rollback), the worker
\* takes a queued message and runs the job step by step (every call returns
\* or raises), and a cancel request that loaded the task goes on to the end
\* of Task.cancel. Whether a task is dispatched, whether somebody cancels and
\* whether the broker redelivers are left open.
Fairness ==
  /\ WF_vars(OuterCommit \/ OuterRollback)
  /\ WF_vars(DispatchEnqueue \/ DispatchFail)
  /\ WF_vars(DispatchSaveId)
  /\ WF_vars(WorkerReceive)
  /\ WF_vars(StartSave)
  /\ WF_vars(StartAudit)
  /\ WF_vars(ListPages \/ CompleteFail)
  /\ WF_vars(ProcessPage \/ CompleteOk \/ CompleteFail)
  /\ WF_vars(CompleteAudit)
  /\ WF_vars(CancelSave)
  /\ WF_vars(CancelRevokeAudit)

SpecLive == Spec /\ Fairness

SaveNext ==
  \/ SaveStart
  \/ SaveSavePage
  \/ SaveAddPage
  \/ SaveInvalidate
  \/ SaveCommit
  \/ SaveRaise
  \/ SaveComplete
  \/ SaveExcept
  \/ EditStart
  \/ EditSavePage
  \/ EditSaveRaise
  \/ EditAddPage
  \/ EditInvalidate
  \/ EditRaise
  \/ EditCommit
  \/ EditNotify
  \/ SyncToStart
  \/ SyncToCommit
  \/ SyncToComplete
  \/ SyncToExcept
  \/ SyncFromStart
  \/ SyncFromPull
  \/ SyncFromStep
  \/ SyncFromRaise
  \/ SyncFromComplete
  \/ SyncFromExcept
  \/ RebuildStart
  \/ RebuildRun
  \/ RebuildRaise
  \/ RebuildComplete
  \/ RebuildExcept
  \/ JobReturn

InitSave == InitLedger /\ InitAux /\ \E fs \in [Paths -> InitialFiles] : InitStore(fs)

SpecSave == InitSave /\ [][SaveNext]_vars

\* save_and_sync jobs one after the other
RetryNext ==
  \/ SaveStart
  \/ SaveSavePage
  \/ SaveAddPage
  \/ SaveInvalidate
  \/ SaveCommit
  \/ SaveRaise
  \/ SaveComplete
  \/ SaveExcept
  \/ RetryReturn

SpecRetry == InitSave /\ [][RetryNext]_vars

CallsNext ==
  \/ ValidatePath
  \/ CommitAndPush
  \/ Pull

SpecCalls == Init /\ [][CallsNext]_vars

\* the sidebar and its cache, one operation at a time
SidebarNext ==
  \/ SidebarRead
  \/ SidebarInvalidate
  \/ SidebarExpire
  \/ SidebarWarm
  \/ SidebarSave

SpecSidebar == Init /\ [][SidebarNext]_vars

\* the search index, one call at a time
SearchNext ==
  \/ SearchAddPage
  \/ SearchRemovePage
  \/ SearchRebuildIndex
  \/ SearchQuery

SpecSearch == Init /\ [][SearchNext]_vars

SpecStorage == Init /\ [][StorageNext]_vars

SpecBuild == Init /\ [][BuildStructure]_vars

\* the widget getters called with differing limits, among invalidations and
\* page saves
WidgetsNext ==
  \/ WidgetsUpdated
  \/ WidgetsStale
  \/ WikiInvalidate
  \/ SidebarSave

SpecWidgets == Init /\ [][WidgetsNext]_vars

\* every cache of the wiki: warms, index-page reads, invalidations, page saves
WarmNext ==
  \/ SidebarWarm
  \/ WidgetsRead
  \/ WikiInvalidate
  \/ SidebarSave

SpecWarm == Init /\ [][WarmNext]_vars

\* --- send_teams_notification(task_id, operation, page_title, page_path)
\* what requests.post(...) followed by response.raise_for_status() can do
HttpOutcomes == {"ok", "timeout", "connection_error", "http_error"}

\* send_teams_webhook: True, or the requests exception of the failed POST
send_teams_webhook(outcome) ==
  IF outcome = "ok" THEN [result |-> "True", raised |-> "none"]
  ELSE [result |-> "none", raised |-> outcome]

\* what one run of the job meets: no webhook configured, a page URL that cannot
\* be built, or one of the outcomes of the POST
NotifyOutcomes == {"not_configured", "url_error"} \cup HttpOutcomes

\* the worker takes the job the edit view dispatched: the view has returned
\* its redirect, the dispatch did not raise; task.start()
NotifyStart ==
  /\ jkind = "edit"
  /\ jpc = "done"
  /\ events # << >>
  /\ events[Len(events)] = "notify"
  /\ jkind' = "send_teams_notification"
  /\ jpc' = "webhook"
  /\ jargs' = NoArgs
  /\ jtask' = [status |-> "in_progress", logs |-> <<"initial">>]
  /\ jlogs' = <<"initial">>
  /\ events' = <<"start">>
  /\ UNCHANGED <<files, index, dirty, clock, response>>
  /\ UNCHANGED <<ledgerVars, auxVars>>

\* not configured: complete(success=True), return False; a page URL that
\* cannot be built or a failed POST: the exception is caught,
\* complete(success=True, has_errors=True), return False; otherwise
\* complete(success=True), return True
NotifySend ==
  /\ jkind = "send_teams_notification"
  /\ jpc = "webhook"
  /\ \E outcome \in NotifyOutcomes :
       LET sent == IF outcome \in HttpOutcomes THEN send_teams_webhook(outcome)
                   ELSE [result |-> "none", raised |-> outcome]
           has_errors == sent.raised \notin {"none", "not_configured"}
           line == IF sent.result = "True" THEN "sent" ELSE outcome
       IN /\ jtask' = [status |-> CompleteStatus(TRUE, has_errors),
                       logs |-> jlogs \o <<line>>]
          /\ jlogs' = jlogs \o <<line>>
          /\ jargs' = [jargs EXCEPT !.result = IF sent.result = "True" THEN "True" ELSE "False",
                                    !.raised = "none"]
          /\ events' = events \o <<outcome, "complete">>
  /\ jpc' = "done"
  /\ UNCHANGED <<files, index, dirty, clock, jkind, response>>
  /\ UNCHANGED <<ledgerVars, auxVars>>

NotifyNext ==
  \/ EditStart
  \/ EditSavePage
  \/ EditSaveRaise
  \/ EditAddPage
  \/ EditInvalidate
  \/ EditRaise
  \/ EditCommit
  \/ EditNotify
  \/ NotifyStart
  \/ NotifySend
  \/ JobReturn

SpecNotify == InitSave /\ [][NotifyNext]_vars

\* ------------------------------------------------------------ the claims

\* C1: once the persisted status of a Task is success, completed_with_errors,
\* failed or cancelled, no later step changes it.
C1_TerminalStatusIsFinal ==
  [][task.status \in Terminal => task'.status = task.status]_vars

\* C2: whenever the job message is in the queue or in a worker's hands, the
\* Task row and its 'created' audit entry are committed and readable; the
\* worker never fails to find the record.
C2_EnqueueAfterCommit ==
  /\ wpc # "not_found"
  /\ (queue > 0 \/ wpc # "idle") =>
       /\ visible
       /\ task.status # "none"
       /\ Len(audit) >= 1 /\ audit[1] = "created"

\* C2 witness: dispatch_task ran inside an enclosing transaction, that
\* transaction committed, and the worker has loaded the record.
C2_Witness == txn = "committed" /\ wpc = "start" /\ wtask.status = "queued"

\* C3: the step in which the enqueue raises stores status failed, stores the
\* logs the record was created with followed by the error text, and appends a
\* 'failed' audit entry; after it the task is never in status queued.
C3_DispatchFailureMarksFailed ==
  [][/\ (dpc = "dispatching" /\ dpc' = "dispatch_failed") =>
          /\ task'.status = "failed"
          /\ task'.logs = dtask.logs \o <<"Failed to dispatch task">>
          /\ dtask.logs \in InitialLogs
          /\ audit' = Append(audit, "failed")
     /\ dpc' = "dispatch_failed" => task'.status # "queued"]_vars

\* C3 witness: the enqueue raised for a task created with initial logs.
C3_Witness ==
  /\ dpc = "dispatch_failed"
  /\ task.status = "failed"
  /\ task.logs = <<"initial", "Failed to dispatch task">>
  /\ audit = <<"created", "failed">>

Count(seq, e) == Cardinality({k \in 1..Len(seq) : seq[k] = e})

\* the place of the first e in seq, 0 when there is none
Pos(seq, e) ==
  IF Count(seq, e) = 0 THEN 0
  ELSE CHOOSE k \in 1..Len(seq) : seq[k] = e /\ \A m \in 1..(k - 1) : seq[m] # e

\* C4: each orchestration (save_and_sync, sync_to_remote, sync_from_remote,
\* rebuild_search_index) calls task.start() before any other effect, and has
\* called task.complete() exactly once when it exits, on the paths where a
\* storage, index, git or dispatch step raised as on the others; it calls
\* complete() at no other point.
C4_StartFirstCompleteOnce ==
  jkind \in {"save_and_sync", "sync_to_remote", "sync_from_remote", "rebuild_search_index"} =>
    /\ Len(events) >= 1
    /\ events[1] = "start"
    /\ Count(events, "start") = 1
    /\ Count(events, "complete") = (IF jpc = "done" THEN 1 ELSE 0)
    /\ jpc = "done" => /\ events[Len(events)] = "complete"
                       /\ jtask.status = (IF jargs.raised = "none" THEN "success" ELSE "failed")

C4_Witness ==
  /\ jkind = "sync_from_remote"
  /\ jpc = "done"
  /\ jargs.raised = "dispatch"
  /\ events = <<"start", "pull", "complete">>
  /\ jtask.status = "failed"

C7_CommitFailureKeepsFile ==
  (jkind = "save_and_sync" /\ jpc = "done" /\ jargs.raised = "commit") =>
    /\ jtask.status = "failed"
    /\ Len(jtask.logs) >= 4
    /\ SubSeq(jtask.logs, 1, 3) = <<"initial", "Saved page", "Updated search index">>
    /\ jtask.logs[Len(jtask.logs)] = "Failed to save page"
    /\ Count(jtask.logs, "Failed to save page") = 1
    /\ files[Path] = [exists |-> TRUE, content |-> dumps(jargs.wiki_page.content),
                      metadata |-> jargs.wiki_page.metadata]
    /\ files[Path].metadata.last_updated = clock

C7_Witness ==
  /\ jkind = "save_and_sync"
  /\ jpc = "done"
  /\ jargs.raised = "commit"
  /\ jtask.status = "failed"
  /\ files[Path].content = <<"b">>
  /\ dirty

\* C8: an edit POST whose file write succeeded is answered with the redirect
\* to the page, whatever commit_and_push and the notification dispatch do.
C8_WrittenEditRedirects ==
  (jkind = "edit" /\ jpc = "done" /\ jargs.raised # "save_page") => response = "redirect"

\* C9: for an existing page save_page reports content_changed=False, writes
\* nothing and leaves last_updated as it is exactly when the content equals
\* the body the file holds and the metadata equals the stored metadata without
\* the system-managed fields; in every other case it reports True and stores
\* a new last_updated.
C9_NoOpExactlyWhenSame ==
  [][(jpc = "save_page" /\ jpc' = "add_page") =>
       LET f == files[Path]
           same == /\ f.exists
                   /\ jargs.content = f.content
                   /\ jargs.metadata = [title |-> f.metadata.title, last_updated |-> -1]
       IN IF same
            THEN ~jargs'.content_changed /\ files' = files
            ELSE /\ jargs'.content_changed
                 /\ files'[Path].metadata.last_updated > f.metadata.last_updated
                 /\ files'[Path].metadata.last_updated = clock']_vars

\* C10: a save whose metadata carries a last_updated value stores a freshly
\* generated last_updated: not the value supplied, and later than the one the
\* page had; this includes the edit view's save, whose rebuilt metadata
\* carries the page's previous last_updated.
C10_UserStampOverwritten ==
  [][(jpc = "save_page" /\ jpc' = "add_page" /\ jargs.metadata.last_updated # -1) =>
       /\ jargs'.content_changed
       /\ clock' = clock + 1
       /\ files'[Path].metadata.last_updated = clock'
       /\ files'[Path].metadata.last_updated # jargs.metadata.last_updated
       /\ files'[Path].metadata.last_updated > files[Path].metadata.last_updated]_vars

C10_Witness ==
  /\ jkind = "edit"
  /\ jpc = "add_page"
  /\ jargs.original_metadata.last_updated >= 1
  /\ jargs.metadata.title = jargs.original_metadata.title
  /\ index[Path] = <<jargs.content>>
  /\ files[Path].metadata.last_updated = clock
  /\ clock > jargs.original_metadata.last_updated

\* C11: validate_path raises InvalidPathError for the empty path, for a path
\* containing "..", for an absolute path such as "/abs" (a leading slash and no
\* trailing one) and for a path containing a null byte; for every other path
\* it returns the path without its leading and trailing slashes.
C11_ValidatePathRejects ==
  call.fn = "validate_path" =>
    LET path == call.arg
        absolute == path # << >> /\ path[1] = "/" /\ path[Len(path)] # "/"
        rejected == \/ path = << >>
                    \/ \E k \in 1..(Len(path) - 1) : path[k] = "." /\ path[k + 1] = "."
                    \/ absolute
                    \/ \E k \in 1..Len(path) : path[k] = "NUL"
    IN IF rejected THEN call.out.raised
       ELSE ~call.out.raised /\ call.out.value = StripSlash(path)

\* C12: commit_and_push returns False only when the working copy has nothing
\* to commit, pull returns False only when no remote is configured, and
\* whenever a git command they run exits non-zero they raise
\* GitOperationError: a failed git command is never behind a True or False.
C12_GitFailureRaises ==
  /\ call.fn = "commit_and_push" =>
       /\ call.out.result = "False" => ~call.changed
       /\ call.out.failed # "none" => call.out.result = "raise"
       /\ call.out.result = "raise" => call.out.failed # "none"
  /\ call.fn = "pull" =>
       /\ call.out.result = "False" => ~call.has_remote
       /\ call.out.failed # "none" => call.out.result = "raise"
       /\ call.out.result = "raise" => call.out.failed # "none"

\* C13: sync_from_remote, when pull returns True, dispatches exactly one
\* rebuild_search_index task, invalidates the caches exactly once, triggers
\* exactly one cache warm and ends success; when pull returns False it
\* dispatches nothing, invalidates nothing and ends success with a note; when
\* pull raises it ends failed and re-raises.
C13_SyncFromRemoteOutcomes ==
  (jkind = "sync_from_remote" /\ jpc = "done") =>
    /\ jargs.result = "True" =>
         /\ Count(events, "dispatch") = 1
         /\ Count(events, "invalidate") = 1
         /\ Count(events, "warm") = 1
         /\ jtask.status = "success"
         /\ response = "return"
    /\ jargs.result = "False" =>
         /\ events = <<"start", "pull", "complete">>
         /\ jtask.status = "success"
         /\ jtask.logs = <<"initial", "No changes to pull">>
         /\ response = "return"
    /\ jargs.result = "raise" =>
         /\ events = <<"start", "pull", "complete">>
         /\ jtask.status = "failed"
         /\ response = "raise"

\* C14: in a remote sync the order is git pull, full search index rebuild,
\* cache invalidation, cache re-warm: once the sync has invalidated or
\* re-warmed the caches, the search index has been rebuilt from the pulled
\* pages (it holds exactly the pages of the store).
C14_RebuildBeforeInvalidation ==
  (jkind = "sync_from_remote" /\ jargs.result = "True") =>
    LET pulled == Pos(events, "pull")
        dispatched == Pos(events, "dispatch")
        invalidated == Pos(events, "invalidate")
        warmed == Pos(events, "warm")
    IN /\ dispatched > 0 => pulled > 0 /\ pulled < dispatched
       /\ invalidated > 0 => dispatched > 0 /\ dispatched < invalidated
       /\ warmed > 0 => invalidated > 0 /\ invalidated < warmed
       /\ (invalidated > 0 \/ warmed > 0) => index = rebuild_index(files)

\* C15: after invalidate_sidebar_cache both the title cache and the structure
\* cache miss; the next get_sidebar_categories fills both from the content
\* store; and over consecutive reads that follow an invalidation, with no
\* other operation between them, get_page_titles is queried exactly once.
C15_InvalidateThenOneQuery ==
  since = "invalidate" =>
    /\ reads = 0 => \A key \in CacheKeys : ~cache[key].hit
    /\ reads >= 1 =>
         /\ queries = 1
         /\ cache[SIDEBAR_CACHE_KEY] = [hit |-> TRUE, value |-> get_page_titles(pages)]
         /\ cache[SIDEBAR_STRUCTURE_CACHE_KEY] =
              [hit |-> TRUE, value |-> _build_sidebar_structure(get_page_titles(pages))]

C15_Witness ==
  /\ since = "invalidate"
  /\ reads = 2
  /\ queries = 1
  /\ pages[<<"docs", "a">>] = "T1"
  /\ Len(cache[SIDEBAR_STRUCTURE_CACHE_KEY].value) > 0

\* the pages that a sidebar tree lists
Listed(tree) ==
  UNION {{tree[k].items[j].path : j \in 1..Len(tree[k].items)} : k \in 1..Len(tree)}

NoExcluded(tree) ==
  \A p \in Listed(tree) : ~StartsWithArchive(p) /\ p # <<"Sidebar">>

\* C17: the tree built from any title map lists no page under "archive/"
\* and no page named "Sidebar", and neither does any tree cached or returned
\* by get_sidebar_categories, whatever saves, invalidations and warms came
\* before.
C17_SidebarExclusions ==
  /\ NoExcluded(_build_sidebar_structure(get_page_titles(pages)))
  /\ NoExcluded(cache[SIDEBAR_STRUCTURE_CACHE_KEY].value)
  /\ call.fn = "get_sidebar_categories" => NoExcluded(call.out)

C17_Witness ==
  /\ call.fn = "get_sidebar_categories"
  /\ Listed(call.out) = {<<"index">>, <<"docs", "a">>}
  /\ DOMAIN cache[SIDEBAR_CACHE_KEY].value = SidebarPaths
  /\ since = "warm"

\* a finished save whose caller described the page as the store had it
SaveOfStoredPage ==
  /\ jkind \in {"save_and_sync", "edit"}
  /\ jpc = "done"
  /\ jargs.raised = "none"
  /\ jargs.is_new_page = ~jargs.existing.exists
  /\ jargs.original_metadata = jargs.existing.metadata

\* C16: a save invalidates the cache exactly when the page is new or the
\* title it leaves in the store differs from the title stored before it (a
\* title given to a page that had none included), and then exactly once.
C16_InvalidateIffNewOrRetitled ==
  SaveOfStoredPage =>
    Count(events, "invalidate") =
      (IF ~jargs.existing.exists
            \/ files[Path].metadata.title # jargs.existing.metadata.title
         THEN 1 ELSE 0)

\* the rows of a table or list, as a set
Rows(rows) == {rows[k] : k \in 1..Len(rows)}

RowsFor(rows, path) == {k \in 1..Len(rows) : rows[k].path = path}

\* C18: add_page is an idempotent upsert keyed by path: the index never holds
\* two documents for one path, adding the same document a second time leaves
\* the index as the first time left it, and after add_page(p, c) the one
\* document for p has content c.
C18_AddPageUpsert ==
  /\ \A path \in SearchPaths : Cardinality(RowsFor(fts, path)) <= 1
  /\ \A path \in SearchPaths, content \in SearchContents :
       add_page_rows(add_page_rows(fts, path, content), path, content)
         = add_page_rows(fts, path, content)
  /\ call.fn = "add_page" =>
       {fts[k].content : k \in RowsFor(fts, call.path)} = {call.content}

C18_Witness ==
  /\ call.fn = "add_page"
  /\ RowsFor(call.before, call.path) # {}
  /\ \A k \in RowsFor(call.before, call.path) : call.before[k].content # call.content
  /\ Len(fts) = 2

\* C19: after rebuild_index(pages) the index holds exactly the (path,
\* content) pairs of pages, every document indexed before that is not among
\* them is gone, and the call returned the number of pages.
C19_RebuildReplaces ==
  call.fn = "rebuild_index" =>
    /\ fts = [k \in 1..Len(call.pages) |->
                [path |-> call.pages[k].path, content |-> call.pages[k].content]]
    /\ \A r \in Rows(call.before) : r \notin Rows(call.pages) => r \notin Rows(fts)
    /\ call.out = Len(call.pages)

C19_Witness ==
  /\ call.fn = "rebuild_index"
  /\ Len(call.before) = 2
  /\ Len(call.pages) = 1
  /\ Rows(call.before) \cap Rows(call.pages) = {}

\* text has query as a substring
Contains(text, query) ==
  \E k \in 0..(Len(text) - Len(query)) : SubSeq(text, k + 1, k + Len(query)) = query

\* C20: search does not raise because of the query text and leaves the index
\* unchanged; an empty or whitespace-only query returns an empty list; a
\* query that is malformed full-text syntax returns the documents whose
\* content has the query as a substring.
C20_SearchToleratesQuery ==
  call.fn = "search" =>
    /\ ~call.out.raised
    /\ fts = call.before
    /\ Strip(call.query) = << >> => call.out.results = << >>
    /\ (Strip(call.query) # << >> /\ Malformed(call.query)) =>
         LET found == SelectSeq(fts, LAMBDA r : Contains(r.content, call.query))
         IN [k \in 1..Len(call.out.results) |-> call.out.results[k].path]
              = [k \in 1..Len(found) |-> found[k].path]

\* C21: while rebuild_search_index runs, total_items is the number of pages
\* enumerated before the first page is processed, the persisted
\* completed_items never decreases and never exceeds total_items, and a task
\* whose status is success has completed_items = total_items.
C21_ProgressCounters ==
  [][task'.status # "none" =>
       /\ task'.completed_items >= task.completed_items
       /\ wpc' = "loop" => (task'.total_items # -1 /\ task'.total_items = wtask'.total_items)
       /\ task'.total_items # -1 => task'.completed_items <= task'.total_items
       /\ task'.status = "success" => task'.completed_items = task'.total_items]_vars

\* a step of the task_cancel view
CancelStep == cpc' # cpc \/ cancels' # cancels

\* C22: can_cancel holds exactly for queued and in_progress; a cancel request
\* for a task whose status is terminal is rejected and leaves status, logs
\* and audit trail as they were; a cancel request for a queued or in_progress
\* task sets status cancelled, and when it returns can_cancel is false.
C22_CancelOnlyWhenCancellable ==
  [][/\ can_cancel(task) <=> task.status \in {"queued", "in_progress"}
     /\ (CancelStep /\ cpc = "idle" /\ cpc' = "idle") =>
          (task.status \in Terminal /\ task' = task /\ audit' = audit)
     /\ (CancelStep /\ cpc \in {"idle", "cancel"} /\ task.status \in Terminal) =>
          (task'.status = task.status /\ task'.logs = task.logs /\ audit' = audit)
     /\ (CancelStep /\ cpc = "cancel") => (task'.status = "cancelled" /\ ~can_cancel(task'))
     /\ (CancelStep /\ cpc = "revoke") => ~can_cancel(task')]_vars

\* the audit event that belongs to a terminal status set by complete()
EventFor(status) == IF status = "success" THEN "completed" ELSE status

\* C23: the audit trail only grows, by one entry per transition: 'created'
\* once from dispatch_task, 'started' from start, from complete the event
\* that matches the status it set, 'cancelled' from cancel (and 'failed' from
\* a failed dispatch); no step changes or removes an entry of a committed
\* task.
C23_AuditAppendOnly ==
  [][/\ (wpc = "start_audit" /\ wpc' = "list") => audit' = Append(audit, "started")
     /\ (wpc = "complete_audit" /\ wpc' = "idle" /\ cpc' = cpc) =>
          audit' = Append(audit, EventFor(wtask.status))
     /\ (cpc = "revoke" /\ cpc' = "idle") => audit' = Append(audit, "cancelled")
     /\ audit' # audit =>
          /\ \/ txn = "open" /\ txn' = "rolled_back" /\ ~visible /\ audit' = << >>
             \/ dpc = "idle" /\ audit = << >> /\ audit' = <<"created">>
             \/ wpc = "start_audit" /\ wtask.status = "in_progress"
                  /\ audit' = Append(audit, "started")
             \/ /\ wpc = "complete_audit"
                /\ audit' = Append(audit, EventFor(wtask.status))
                /\ \A success \in BOOLEAN, has_errors \in BOOLEAN :
                     CompleteEvent(success, has_errors) =
                       EventFor(CompleteStatus(success, has_errors))
             \/ cpc = "revoke" /\ ctask.status = "cancelled"
                  /\ audit' = Append(audit, "cancelled")
             \/ dpc = "dispatching" /\ dtask'.status = "failed"
                  /\ audit' = Append(audit, "failed")
          /\ task'.status # "none" =>
               (Count(audit', "created") = 1 /\ audit'[1] = "created")]_vars

C23_Witness ==
  /\ Len(audit) = 4
  /\ audit[1] = "created"
  /\ Count(audit, "started") = 1
  /\ Count(audit, "failed") = 1
  /\ Count(audit, "cancelled") = 1

IsPrefix(s, t) == Len(s) <= Len(t) /\ SubSeq(t, 1, Len(s)) = s

C25_LogsAppendOnly ==
  [][(task.status # "none" /\ task'.status # "none") =>
       /\ IsPrefix(task.logs, task'.logs)
       /\ Count(task.logs, "Task cancelled") <= Count(task'.logs, "Task cancelled")]_vars

\* C26: once a task has been cancelled (its status stored as cancelled, or its
\* 'cancelled' audit entry written), no step records further progress: the
\* stored completed_items and total_items stay as they are and no 'started',
\* 'completed', 'completed_with_errors' or 'failed' entry is added.
Cancelled == task.status = "cancelled" \/ Count(audit, "cancelled") > 0

C26_NoProgressAfterCancel ==
  [][Cancelled =>
       /\ task'.completed_items = task.completed_items
       /\ task'.total_items = task.total_items
       /\ audit' # audit => audit' = Append(audit, "cancelled")]_vars

\* C27: cache warming populates every derived cache and is idempotent: right
\* after warm_sidebar_cache the title tier holds the store's titles, the
\* structure tier the tree built from them and both widget caches are
\* populated; a second run with no content change in between leaves the cache
\* as it is.
Warmed == call.fn = "warm_sidebar_cache"

C27_WarmPopulatesAll ==
  /\ Warmed =>
       /\ cache[SIDEBAR_CACHE_KEY] = [hit |-> TRUE, value |-> get_page_titles(pages)]
       /\ cache[SIDEBAR_STRUCTURE_CACHE_KEY] =
            [hit |-> TRUE, value |-> _build_sidebar_structure(get_page_titles(pages))]
       /\ \A key \in WidgetKeys : cache[key].hit
       /\ cache_set(cache_set(cache, SIDEBAR_CACHE_KEY, get_page_titles(pages)),
                    SIDEBAR_STRUCTURE_CACHE_KEY,
                    _build_sidebar_structure(get_page_titles(pages))) = cache

\* C28: in every state an observer can read, the status agrees with the audit
\* trail: in_progress only with a 'started' entry, success,
\* completed_with_errors or failed only with the matching terminal entry,
\* cancelled only with a 'cancelled' entry, and started_at, completed_at and
\* cancelled_at are null while the status has made no transition.
C28_StatusAgreesWithAudit ==
  (visible /\ task.status # "none") =>
    /\ task.status = "in_progress" => started_at(audit)
    /\ task.status \in {"success", "completed_with_errors", "failed"} =>
         (completed_at(audit) /\ Count(audit, EventFor(task.status)) > 0)
    /\ task.status = "cancelled" => cancelled_at(audit)
    /\ task.status = "queued" =>
         (~started_at(audit) /\ ~completed_at(audit) /\ ~cancelled_at(audit))

\* C29: on a structure-cache hit get_sidebar_categories(current_path) reads
\* neither the title tier nor the content store (its result is the same
\* whatever they hold, and no query is counted) and leaves both tiers as they
\* are; in the tree it returns, is_current marks exactly the items whose path
\* is current_path and is_expanded exactly the category whose slug is
\* current_path's first segment, or the general bucket for a path without a
\* separator.
StructureHit == cache[SIDEBAR_STRUCTURE_CACHE_KEY].hit

ReadStep == call'.fn = "get_sidebar_categories" /\ since' = since /\ pages' = pages

OtherStores == {pages, [p \in SidebarPaths |-> "absent"], [p \in SidebarPaths |-> "None"]}

OtherTitleTiers ==
  {cache[SIDEBAR_CACHE_KEY], Miss, [hit |-> TRUE, value |-> get_page_titles(pages)]}

C29_HitOverlayOnly ==
  [][(ReadStep /\ StructureHit) =>
       LET cached == cache[SIDEBAR_STRUCTURE_CACHE_KEY].value
           current_path == call'.arg
           out == call'.out
       IN /\ cache' = cache
          /\ queries' = queries
          /\ \A ps \in OtherStores : \A tier \in OtherTitleTiers :
               get_sidebar_categories([cache EXCEPT ![SIDEBAR_CACHE_KEY] = tier],
                                      ps, current_path).out = out
          /\ Len(out) = Len(cached)
          /\ current_path = << >> => out = cached
          /\ current_path # << >> =>
               \A k \in 1..Len(out) :
                 /\ out[k].slug = cached[k].slug
                 /\ out[k].is_expanded <=>
                      (out[k].slug = IF Len(current_path) > 1 THEN current_path[1]
                                     ELSE "_general")
                 /\ Len(out[k].items) = Len(cached[k].items)
                 /\ \A j \in 1..Len(out[k].items) :
                      /\ out[k].items[j].path = cached[k].items[j].path
                      /\ out[k].items[j].title = cached[k].items[j].title
                      /\ out[k].items[j].is_current <=>
                           (out[k].items[j].path = current_path)]_vars

C29_Witness ==
  /\ since = "warm"
  /\ reads = 1
  /\ queries = 0
  /\ call.fn = "get_sidebar_categories"
  /\ call.arg = <<"docs", "a">>
  /\ Len(call.out) = 2
  /\ ~call.out[1].is_expanded
  /\ call.out[2].is_expanded
  /\ call.out[2].items[1].is_current
  /\ ~call.out[1].items[1].is_current

\* C30: get_page, save_page, delete_page, list_attachments,
\* get_attachment_path and save_attachment, given a page path that
\* validate_path rejects or (the last two) a filename containing "..", "/" or
\* a null byte, raise InvalidPathError before any filesystem call: nothing is
\* read, created, written or removed and the tree is as it was.
StorageFns ==
  {"get_page", "save_page", "delete_page", "list_attachments",
   "get_attachment_path", "save_attachment"}

BadFilename(filename) ==
  \/ \E k \in 1..(Len(filename) - 1) : filename[k] = "." /\ filename[k + 1] = "."
  \/ \E k \in 1..Len(filename) : filename[k] \in {"/", "NUL"}

C30_ValidationBeforeFilesystem ==
  [][(call' # call \/ repo' # repo) /\ call'.fn \in StorageFns =>
       LET rejected ==
             \/ validate_path(call'.arg).raised
             \/ /\ call'.fn \in {"get_attachment_path", "save_attachment"}
                /\ BadFilename(call'.filename)
       IN /\ rejected =>
               /\ call'.out.raised
               /\ call'.out.out = "InvalidPathError"
               /\ call'.out.ops = << >>
               /\ repo' = repo
          /\ ~rejected => ~call'.out.raised]_vars

C30_Witness ==
  /\ call.fn = "save_attachment"
  /\ call.arg = <<"a">>
  /\ call.filename = <<"a", "/", "a">>
  /\ call.out.raised
  /\ <<"page", <<"a">>>> \in repo
  /\ <<"att", <<"a">>, <<"a">>>> \in repo

\* C31: for every title map, _build_sidebar_structure places each page that
\* is not excluded in exactly one category, once: a page without a separator
\* in the general bucket, any other in the bucket of its first segment; it
\* lists nothing else, no category is empty, the general bucket is first when
\* present, and the other buckets follow in alphabetical order of slug.
Places(categories, p) ==
  {<<k, j>> \in (1..Len(categories)) \X (1..Cardinality(BuildPaths)) :
     j <= Len(categories[k].items) /\ categories[k].items[j].path = p}

C31_OneCategoryEach ==
  call.fn = "_build_sidebar_structure" =>
    LET page_titles == call.arg
        categories == call.out
        shown == {p \in DOMAIN page_titles :
                    p # <<"Sidebar">> /\ ~(Len(p) > 1 /\ p[1] = "archive")}
    IN /\ \A p \in shown :
            /\ Cardinality(Places(categories, p)) = 1
            /\ \A at \in Places(categories, p) :
                 /\ categories[at[1]].slug = IF Len(p) = 1 THEN "_general" ELSE p[1]
                 /\ categories[at[1]].items[at[2]].title = page_titles[p]
       /\ \A p \in BuildPaths \ shown : Places(categories, p) = {}
       /\ \A k \in 1..Len(categories) :
            /\ Len(categories[k].items) > 0
            /\ categories[k].slug = "_general" => k = 1
            /\ \A m \in (k + 1)..Len(categories) :
                 /\ categories[m].slug # "_general"
                 /\ categories[k].slug # "_general" =>
                      Rank(categories[k].slug) < Rank(categories[m].slug)

C31_Witness ==
  /\ call.fn = "_build_sidebar_structure"
  /\ DOMAIN call.arg = BuildPaths
  /\ Len(call.out) = 4
  /\ call.out[1].slug = "_general"
  /\ call.out[2].slug = "a"
  /\ call.out[3].slug = "docs"
  /\ Len(call.out[3].items) = 2
  /\ call.out[4].slug = "x"

\* C32: every call get_recently_updated(limit) and get_recently_stale(limit)
\* returns at most limit entries, whatever calls with other limits came
\* before, also when it is answered from the cache.
WidgetFns == {"get_recently_updated", "get_recently_stale"}

C32_AtMostLimit ==
  call.fn \in WidgetFns => Len(call.out) <= call.limit

\* C33: after the delete view has handled a POST for an existing page, the
\* page is absent from the content store and from the search index and the
\* sidebar and widget caches are invalidated, whatever commit_and_push did;
\* a POST for a path with no page leaves the search index and the caches as
\* they were.
C33_DeleteRemovesEverywhere ==
  [][call'.fn = "delete" =>
       /\ ~call'.existed => (fts' = fts /\ cache' = cache /\ repo' = repo)
       /\ (call'.existed /\ call'.pc = "done") =>
            LET page == StripSlash(call'.arg)
            IN /\ <<"page", page>> \notin repo'
               /\ \A k \in 1..Len(fts') : fts'[k].path # page
               /\ \A key \in CacheKeys : ~cache'[key].hit
               /\ \E k \in 1..Len(call'.events) :
                    call'.events[k] \in {"commit_True", "commit_False", "commit_raise"}]_vars

\* C34: every operation that invalidates the sidebar tiers because of a
\* content change also invalidates both widget caches in the same call:
\* when its invalidation returns, neither widget key is cached.
C34_InvalidatedTogether ==
  [][(/\ call'.fn \in TaskOps \cup ViewOps
       /\ \A key \in {SIDEBAR_CACHE_KEY, SIDEBAR_STRUCTURE_CACHE_KEY} : ~cache'[key].hit)
         => (\A key \in WidgetKeys : ~cache'[key].hit)]_vars

\* C35: once a save with its invalidation and the concurrent sidebar read
\* and cache warm have all finished, each sidebar tier is absent or built
\* from the page files as the save left them.
Quiet == call.fn = "race" /\ call.rd.pc = "idle" /\ call.wm.pc = "idle" /\ call.op.pc = "idle"

C35_NoStaleAfterSave ==
  (Quiet /\ since = "save") =>
     /\ cache[SIDEBAR_CACHE_KEY].hit => cache[SIDEBAR_CACHE_KEY].value = get_page_titles(pages)
     /\ cache[SIDEBAR_STRUCTURE_CACHE_KEY].hit =>
          cache[SIDEBAR_STRUCTURE_CACHE_KEY].value = _build_sidebar_structure(get_page_titles(pages))

\* C38: whenever both sidebar tiers are populated, the cached structure is
\* _build_sidebar_structure of the cached title map.
C38_TiersAgree ==
  (cache[SIDEBAR_CACHE_KEY].hit /\ cache[SIDEBAR_STRUCTURE_CACHE_KEY].hit) =>
     cache[SIDEBAR_STRUCTURE_CACHE_KEY].value =
       _build_sidebar_structure(cache[SIDEBAR_CACHE_KEY].value)

\* C37: when a save_and_sync wrote the page file and then failed at
\* commit_and_push, a later save_and_sync of the same content and metadata
\* (here: called without metadata, both times) that ends with status success
\* leaves no uncommitted change in the working copy.
C37_RetryCommits ==
  (/\ call.fn = "failed_at_commit"
   /\ jkind = "save_and_sync"
   /\ jpc = "done"
   /\ jtask.status = "success"
   /\ jargs.content = call.content
   /\ jargs.metadata = NoMetadata
   /\ call.metadata = NoMetadata) => ~dirty

\* the content the search index holds for the page, as a set (empty: no row)
Indexed == {fts[k].content : k \in {j \in 1..Len(fts) : fts[j].path = Path}}

\* C36: once a rebuild_search_index task and a concurrent save of a page
\* have both finished, the index entry of the page holds the saved content:
\* neither content read before the save nor nothing at all.
C36_RebuildKeepsSave ==
  (/\ call.fn = "writers"
   /\ call.rb.pc = "done"
   /\ call.s["s1"].pc = "done"
   /\ call.s["s2"].pc = "idle") => Indexed = {call.s["s1"].content}

\* C40: once two saves of different content to the same path have both
\* finished, the index entry of the path holds the content of the page file.
C40_LastWriterWinsBoth ==
  (/\ call.fn = "writers"
   /\ call.rb.pc = "idle"
   /\ call.s["s1"].pc = "done"
   /\ call.s["s2"].pc = "done"
   /\ call.s["s1"].content # call.s["s2"].content) =>
     Indexed = {get_page(files[Path]).content}

\* C39: every task created by dispatch_task eventually reaches a terminal
\* status and does not stay queued or in_progress forever, when the worker
\* is scheduled fairly and every call returns or raises. (A task whose
\* creating transaction rolled back does not exist: status "none".)
C39_EventuallyTerminal ==
  (task.status \in {"queued", "in_progress"}) ~> (task.status \in Terminal \cup {"none"})

====
